---- MODULE Spec2Model ----
(***************************************************************************)
(* Model of the holesail-switchboard lifecycle orchestrator                *)
(* (src/src/server.js): the two entry lists, the p-limit(1) mutation       *)
(* serializer, the six mutating route handlers, the start-up sweep, the    *)
(* persisted document and the tunnel collaborator (Holesail handles).      *)
(*                                                                         *)
(* Granularity: one action per run of handler code between two real I/O    *)
(* awaits (hs.close(), hs.ready(), fs.writeFile()).  An external call that *)
(* never returns is the behaviour that stutters forever at that await.     *)
(* JavaScript indices are 0-based, sequences here are 1-based: entry       *)
(* `index` of a list is list[index + 1].                                   *)
(***************************************************************************)
EXTENDS Integers, Sequences, FiniteSets, TLC

\* ---------------------------------------------------------------- bounds
MaxRequests  == 2   \* number of mutating requests submitted in one behaviour
MaxPersisted == 1   \* number of entries in the document found on disk at start-up
MaxQueued    == 3   \* number of requests in one behaviour of SpecQueue
MaxFair      == 2   \* number of requests in one behaviour of FairSpec
MaxSwept     == 2   \* servers, and clients, in a document swept by SpecSweep
MaxHeld      == 2   \* refresh tokens, and session ids, callers still hold
MaxIssued    == 1   \* refresh tokens issued in one behaviour of SpecAuth
MaxTicks     == 2   \* advances of the clock in one behaviour
MaxGated     == 2   \* mutating requests admitted in one behaviour of SpecGate
MaxPassword  == 1   \* code units in a password
MaxRead      == 2   \* mutating requests in one behaviour of SpecRead

\* ------------------------------------------------------ JavaScript values
\* one record shape for every value; `whole` is FALSE for a number with a
\* fractional part (then the value lies strictly between n and n + 1)
Str(s)  == [t |-> "string",    s |-> s,    n |-> 0, whole |-> TRUE,  b |-> FALSE]
Num(n)  == [t |-> "number",    s |-> <<>>, n |-> n, whole |-> TRUE,  b |-> FALSE]
Frac(n) == [t |-> "number",    s |-> <<>>, n |-> n, whole |-> FALSE, b |-> FALSE]
Bool(b) == [t |-> "boolean",   s |-> <<>>, n |-> 0, whole |-> TRUE,  b |-> b]
Undef   == [t |-> "undefined", s |-> <<>>, n |-> 0, whole |-> TRUE,  b |-> FALSE]

\* JavaScript truthiness, as used by `!holesailServer.enabled` and `if (enabled)`
Truthy(v) ==
  CASE v.t = "boolean" -> v.b
    [] v.t = "number"  -> v.n # 0 \/ ~v.whole
    [] v.t = "string"  -> v.s # <<>>
    [] OTHER           -> FALSE

Repeat(c, k) == [i \in 1..k |-> c]

\* ------------------------------------------------------ validation helpers
isValidServerKey(key) ==
  /\ key.t = "string"
  /\ \/ key.s = <<>>
     \/ (64 <= Len(key.s) /\ Len(key.s) <= 1000 /\ key.s[6] # "s")

isValidClientKey(key) ==
  /\ key.t = "string"
  /\ \/ key.s = <<>>
     \/ (Len(key.s) >= 5 /\ SubSeq(key.s, 1, 5) = <<"h", "s", ":", "/", "/">>)

isValidPortNoMax(port) == port.t = "number" /\ port.whole /\ port.n >= 0
isValidPort(port) ==
  port.t = "number" /\ port.whole /\ port.n >= 0 /\ port.n <= 65535

isValidHost(host) == host.t = "string" /\ Len(host.s) <= 255

\* ------------------------------------------------------------ request data
\* request.body: absent, or an object whose fields are JavaScript values
Body(host, port, key, secure, enabled) ==
  [present |-> TRUE, host |-> host, port |-> port, key |-> key,
   secure |-> secure, enabled |-> enabled]
NoBody == [present |-> FALSE, host |-> Undef, port |-> Undef, key |-> Undef,
           secure |-> Undef, enabled |-> Undef]

ServerKeyA == Str(Repeat("0", 64))
ClientKeyA == Str(<<"h", "s", ":", "/", "/", "k">>)
HostA      == Str(<<"h">>)

ServerBodies ==
  { Body(HostA, Num(8080), ServerKeyA, Bool(FALSE), Bool(TRUE)),
    Body(Str(<<>>), Num(0), Str(<<>>), Bool(FALSE), Bool(FALSE)),
    Body(HostA, Num(70000), ServerKeyA, Bool(FALSE), Bool(TRUE)),
    NoBody }

ClientBodies ==
  { Body(Undef, Num(8080), ClientKeyA, Undef, Bool(TRUE)),
    Body(Undef, Num(0), Str(<<>>), Undef, Bool(FALSE)),
    Body(Undef, Num(8080), Str(<<"k">>), Undef, Bool(TRUE)),
    NoBody }

\* request.params.index as sent: a string of characters
IndexParams ==
  { <<"0">>, <<"1">>, <<"2">>, <<"-", "1">>, <<"x">>, <<"1", "x">> }

Digits == [c \in {"0", "1", "2", "3", "4", "5", "6", "7", "8", "9"} |->
            CASE c = "0" -> 0 [] c = "1" -> 1 [] c = "2" -> 2 [] c = "3" -> 3
              [] c = "4" -> 4 [] c = "5" -> 5 [] c = "6" -> 6 [] c = "7" -> 7
              [] c = "8" -> 8 [] OTHER -> 9]

RECURSIVE DigitRun(_, _, _)
\* value of the longest prefix of decimal digits of s from position p on
\* (acc so far); -1 when there is no digit at all
DigitRun(s, p, acc) ==
  IF p > Len(s) \/ s[p] \notin DOMAIN Digits
  THEN acc
  ELSE DigitRun(s, p + 1, (IF acc < 0 THEN 0 ELSE acc) * 10 + Digits[s[p]])

\* parseInt(s, 10): [nan |-> TRUE] or the integer
parseInt(s) ==
  LET neg  == Len(s) >= 1 /\ s[1] = "-"
      from == IF neg \/ (Len(s) >= 1 /\ s[1] = "+") THEN 2 ELSE 1
      v    == DigitRun(s, from, -1)
  IN  IF v < 0 THEN [nan |-> TRUE, n |-> 0]
      ELSE [nan |-> FALSE, n |-> IF neg THEN 0 - v ELSE v]

\* the checks of POST/PATCH /api/servers on the destructured fields
ValidServerFields(b) ==
  /\ isValidHost(b.host)
  /\ isValidPort(b.port)
  /\ isValidServerKey(b.key)
  /\ b.secure.t = "boolean"
  /\ b.enabled.t = "boolean"
  /\ b.enabled.b => (b.key.s # <<>> /\ b.host.s # <<>> /\ b.port.n # 0)

\* the checks of POST/PATCH /api/clients on the destructured fields
ValidClientFields(b) ==
  /\ isValidClientKey(b.key)
  /\ isValidPort(b.port)
  /\ b.enabled.t = "boolean"
  /\ b.enabled.b => (b.key.s # <<>> /\ b.port.n # 0)

ServerCfg(b) == [host |-> b.host, port |-> b.port, key |-> b.key,
                 secure |-> b.secure, enabled |-> b.enabled]
ClientCfg(b) == [key |-> b.key, port |-> b.port, enabled |-> b.enabled]

\* a freshly made entry object: no `state`, no `hs`
NewEntry(cfg) == [cfg |-> cfg, state |-> "undefined", hs |-> 0]

\* ------------------------------------------------------------------ state
VARIABLES
  phase,            \* start(): "boot", "servers", "clients", "listening", "exited"
  sweep,            \* start(): loop counter i and the handle whose ready() is awaited
  disk,             \* content of dataFile
  holesailServers,  \* entries: [cfg, state, hs]
  holesailClients,
  live,             \* collaborator: handles constructed and not yet closed
  nextHs,           \* identity of the next constructed Holesail object
  queue,            \* p-limit: queued tasks, in arrival order
  activeCount,      \* p-limit: tasks whose body is executing
  tasks,            \* one record per submitted request, in arrival order
  reply,            \* the response sent last: task, status code, index
  settings,         \* the body GET /api/settings returned last
  now,              \* Math.floor(Date.now() / 1000)
  sessionsById,     \* auth.js: sessionId -> [refreshTokenHash, issuedAt, refreshExpiresAt]
  sessionIdByRefreshTokenHash,  \* auth.js: refreshTokenHash -> sessionId
  nextUuid,         \* identity of the next crypto.randomUUID()
  nextToken,        \* identity of the next crypto.randomBytes(32) refresh token
  authResult,       \* the value the last call of an auth.js function returned
  passwordHash,     \* the credential record, NoPassword when none is set
  accessTokens,     \* the access tokens signed so far: [sid, exp]
  gate,             \* the last decision of requireAuth
  passwordCall      \* the last call of hashPassword or verifyPassword, and its outcome

serverVars == <<phase, sweep, disk, holesailServers, holesailClients, live, nextHs,
                queue, activeCount, tasks, reply, settings>>
authVars == <<now, sessionsById, sessionIdByRefreshTokenHash, nextUuid, nextToken,
              authResult, passwordHash, accessTokens, gate, passwordCall>>
vars == <<serverVars, authVars>>

\* ------------------------------------------------------------ persistence
EmptyDoc   == [ok |-> TRUE, servers |-> <<>>, clients |-> <<>>]
MissingDoc == [ok |-> FALSE, servers |-> <<>>, clients |-> <<>>]

\* a saveData that strips only `hs`: JSON.stringify keeps a defined `state`
Persisted(entry) ==
  IF entry.state = "undefined" THEN entry.cfg
  ELSE [f \in DOMAIN entry.cfg \cup {"state"} |->
          IF f = "state" THEN entry.state ELSE entry.cfg[f]]
DocumentKeepingState(servers, clients) ==
  [ok |-> TRUE,
   servers |-> [i \in DOMAIN servers |-> Persisted(servers[i])],
   clients |-> [i \in DOMAIN clients |-> Persisted(clients[i])]]
\* the argument of fs.writeFile in saveData: `hs` and `state` are set to
\* undefined, which JSON.stringify omits
Document(servers, clients) ==
  [ok |-> TRUE,
   servers |-> [i \in DOMAIN servers |-> servers[i].cfg],
   clients |-> [i \in DOMAIN clients |-> clients[i].cfg]]

\* ------------------------------------------------- startServer / stopServer
InRange(list, index) == index >= 0 /\ index < Len(list)

\* startServer up to its first await (or its return)
StartServerSync(list, index) ==
  IF ~InRange(list, index) THEN list
  ELSE IF ~Truthy(list[index + 1].cfg.enabled)
       THEN [list EXCEPT ![index + 1].state = "disabled"]
       ELSE [list EXCEPT ![index + 1].state = "initializing"]

\* does startServer construct a Holesail and await ready()?
StartServerOpens(list, index) ==
  InRange(list, index) /\ Truthy(list[index + 1].cfg.enabled)

\* ready() resolved
StartServerReady(list, index, h) ==
  IF ~InRange(list, index) THEN list
  ELSE [list EXCEPT ![index + 1].hs = h, ![index + 1].state = "running"]

StartServerCatchKeepsState(list, index) == list
\* ready() (or the constructor) threw
StartServerCatch(list, index) ==
  IF ~InRange(list, index) THEN list
  ELSE [list EXCEPT ![index + 1].state = "failed"]

\* stopServer up to the await of hs.close()
StopServerSync(list, index) ==
  IF ~InRange(list, index) THEN list
  ELSE [list EXCEPT ![index + 1].state = "stopping"]

StopNeverCloses(list, index) == FALSE
\* does stopServer / stopClient call hs.close()?
StopCloses(list, index) == InRange(list, index) /\ list[index + 1].hs # 0

StopRethrowsClose(threw) == threw
\* try { await hs.close() } catch (err) { log }: does a rejection of close()
\* leave stopServer / stopClient?
StopRethrows(threw) == FALSE

\* stopServer from the return (or throw) of hs.close() on
StopServerDone(list, index) ==
  IF ~InRange(list, index) THEN list
  ELSE [list EXCEPT ![index + 1].hs = 0, ![index + 1].state = "stopped"]

\* ------------------------------------------------- startClient / stopClient
StartClientSync(list, index) ==
  IF ~InRange(list, index) THEN list
  ELSE IF ~Truthy(list[index + 1].cfg.enabled)
       THEN [list EXCEPT ![index + 1].state = "disabled"]
       ELSE [list EXCEPT ![index + 1].state = "initializing"]

StartClientOpens(list, index) ==
  InRange(list, index) /\ Truthy(list[index + 1].cfg.enabled)

StartClientReady(list, index, h) ==
  IF ~InRange(list, index) THEN list
  ELSE [list EXCEPT ![index + 1].hs = h, ![index + 1].state = "running"]

StartClientCatchMarksAll(list, index) ==
  [i \in DOMAIN list |-> [list[i] EXCEPT !.state = "failed"]]
StartClientCatch(list, index) ==
  IF ~InRange(list, index) THEN list
  ELSE [list EXCEPT ![index + 1].state = "failed"]

\* stopClient sets no state before the await of hs.close()
StopClientSync(list, index) == list

StopClientDone(list, index) ==
  IF ~InRange(list, index) THEN list
  ELSE [list EXCEPT ![index + 1].hs = 0, ![index + 1].state = "stopped"]

\* an install that rebuilds the whole list from the configs
InstallRebuildsList(list, index, cfg) ==
  [i \in DOMAIN list |-> NewEntry(IF i = index + 1 THEN cfg ELSE list[i].cfg)]
\* holesailServers[index] = {...}
Install(list, index, cfg) ==
  IF ~InRange(list, index) THEN list
  ELSE [list EXCEPT ![index + 1] = NewEntry(cfg)]

SpliceToEnd(list, index) == SubSeq(list, 1, index)
\* holesailServers.splice(index, 1)
Splice(list, index) ==
  IF ~InRange(list, index) THEN list
  ELSE [j \in 1..(Len(list) - 1) |-> IF j < index + 1 THEN list[j] ELSE list[j + 1]]

\* ------------------------------------------------------------ collaborator
\* new Holesail(...) followed by the call of ready()
Constructed(lv, h) == lv \cup {[id |-> h, st |-> "opening"]}
\* ready() resolved
Opened(lv, h) == (lv \ {[id |-> h, st |-> "opening"]}) \cup {[id |-> h, st |-> "open"]}
\* ready() rejected: no handle
OpenFailed(lv, h) == lv \ {[id |-> h, st |-> "opening"]}
\* hs.close() called
Closing(lv, h) == (lv \ {[id |-> h, st |-> "open"]}) \cup {[id |-> h, st |-> "closing"]}
\* hs.close() returned or threw: either way the handle is not closed again
Closed(lv, h) == lv \ {[id |-> h, st |-> "closing"]}

\* ------------------------------------------------- p-limit: mutationLimit
Concurrency == 1

PostServersRoute    == "POST /api/servers"
PatchServersRoute   == "PATCH /api/servers/:index"
DeleteServersRoute  == "DELETE /api/servers/:index"
PostClientsRoute    == "POST /api/clients"
PatchClientsRoute   == "PATCH /api/clients/:index"
DeleteClientsRoute  == "DELETE /api/clients/:index"

Routes == {PostServersRoute, PatchServersRoute, DeleteServersRoute,
           PostClientsRoute, PatchClientsRoute, DeleteClientsRoute}

NoPre == [servers |-> <<>>, clients |-> <<>>]

\* the task handed to mutationLimit(...) by a route handler; what the request
\* asks for (route, params.index, body) is filled in when the task is called,
\* nothing reads it before
NewTask ==
  [route |-> "", status |-> "queued", pc |-> "queued", param |-> <<>>,
   body |-> NoBody, index |-> -1, hs |-> 0, doc |-> EmptyDoc, pre |-> NoPre,
   threw |-> FALSE]

\* a task whose promise has settled
DoneTask == [NewTask EXCEPT !.status = "done", !.pc = "done"]

NoReply == [id |-> 0, code |-> 0, index |-> -1]

\* no GET /api/settings answered yet
NoSettings == [sent |-> FALSE, servers |-> <<>>, clients |-> <<>>]

\* the body of GET /api/settings: every entry spread with hs removed, its
\* state as it is at that moment (none when the entry has no state property)
\* and, for a server with a handle, hsInfoUrl
Settings(servers, clients) ==
  [sent |-> TRUE,
   servers |-> [i \in DOMAIN servers |->
                  [cfg |-> servers[i].cfg, state |-> servers[i].state,
                   hsInfoUrl |-> servers[i].hs]],
   clients |-> [i \in DOMAIN clients |->
                  [cfg |-> clients[i].cfg, state |-> clients[i].state, hsInfoUrl |-> 0]]]

CanReadWhenIdle(active) == active < Concurrency
\* GET /api/settings is not handed to mutationLimit: it is answered whatever
\* the number of running tasks
CanRead(active) == TRUE

CanStartAny(active) == TRUE
\* p-limit starts a queued task only while activeCount < concurrency
CanStart(active) == active < Concurrency

DequeueNewest(q) == q[Len(q)]
\* p-limit takes the task at the front of its queue
Dequeue(q) == Head(q)

ReleaseOnSuccess(active, code) == IF code >= 400 THEN active ELSE active - 1
\* p-limit run(): `try { await result } catch {}` then next(), whatever the
\* outcome of the task
Release(active, code) == active - 1

Without(q, id) == SelectSeq(q, LAMBDA x : x # id)

T(id) == tasks[id]

Running(id, route, pc) ==
  /\ id \in DOMAIN tasks
  /\ tasks[id].status = "running"
  /\ tasks[id].route = route
  /\ tasks[id].pc = pc

Upd(id, pc, index, hs, doc) ==
  [tasks EXCEPT ![id] = [@ EXCEPT !.pc = pc, !.index = index, !.hs = hs, !.doc = doc]]
\* the same, on the return of stopServer / stopClient: `threw` tells whether
\* the close() it awaited rejected
UpdStopped(id, pc, index, hs, doc, threw) ==
  [tasks EXCEPT ![id] = [@ EXCEPT !.pc = pc, !.index = index, !.hs = hs, !.doc = doc,
                                  !.threw = threw]]

Reply(id, code, rindex) ==
  /\ tasks' = [tasks EXCEPT ![id] = DoneTask]
  /\ reply' = [id |-> id, code |-> code, index |-> rindex]
  /\ activeCount' = Release(activeCount, code)

\* a variant whose catch block answers as if the operation had succeeded
FailureSwallowed(id) == Reply(id, 200, -1)
\* the catch block of every mutating route: log, then reply.code(500)
Failure(id) == Reply(id, 500, -1)

\* the inputs a request of each route carries
ParamsOf(route) ==
  IF route \in {PostServersRoute, PostClientsRoute} THEN {<<>>} ELSE IndexParams
BodiesOf(route) ==
  CASE route \in {PostServersRoute, PatchServersRoute} -> ServerBodies
    [] route \in {PostClientsRoute, PatchClientsRoute} -> ClientBodies
    [] OTHER -> {NoBody}

\* the route handler calls mutationLimit(task): p-limit queues the task
Enqueue(max) ==
  /\ phase = "listening"
  /\ Len(tasks) < max
  /\ tasks' = Append(tasks, NewTask)
  /\ queue' = Append(queue, Len(tasks) + 1)
  /\ UNCHANGED <<phase, sweep, disk, holesailServers, holesailClients, live,
                 nextHs, activeCount, reply, settings>>

\* a request arrives at a server with no credential record
Submit(max) ==
  /\ Enqueue(max)
  /\ UNCHANGED authVars

\* p-limit run(): activeCount++ and the task is called with its request
LimitRun(id) ==
  /\ phase = "listening"
  /\ queue # <<>>
  /\ CanStart(activeCount)
  /\ id = Dequeue(queue)
  /\ queue' = Without(queue, id)
  /\ activeCount' = activeCount + 1
  /\ \E route \in Routes : \E p \in ParamsOf(route), b \in BodiesOf(route) :
       tasks' = [tasks EXCEPT ![id] =
                   [@ EXCEPT !.route = route,
                             !.status = "running", !.pc = "start", !.param = p,
                             !.body = b,
                             !.pre = [servers |-> holesailServers,
                                      clients |-> holesailClients]]]
  /\ UNCHANGED <<phase, sweep, disk, holesailServers, holesailClients, live,
                 nextHs, reply>>
  /\ UNCHANGED <<settings, authVars>>

BadIndexOffByOne(list, pi) == pi.nan \/ pi.n < 0 \/ pi.n > Len(list)
BadIndex(list, pi) == pi.nan \/ pi.n < 0 \/ pi.n >= Len(list)

\* ------------------------------------------------------ POST /api/servers
PostServers(id) ==
  /\ Running(id, PostServersRoute, "start")
  /\ IF ~ValidServerFields(T(id).body)
     THEN /\ Reply(id, 400, -1)
          /\ UNCHANGED holesailServers
     ELSE LET l == Append(holesailServers, NewEntry(ServerCfg(T(id).body)))
          IN  /\ holesailServers' = l
              /\ tasks' = Upd(id, "write", Len(l) - 1, 0, Document(l, holesailClients))
              /\ UNCHANGED <<activeCount, reply>>
  /\ UNCHANGED <<phase, sweep, disk, holesailClients, live, nextHs, queue>>
  /\ UNCHANGED <<settings, authVars>>

PostServersWritten(id) ==
  /\ Running(id, PostServersRoute, "write")
  /\ \/ /\ disk' = T(id).doc
        /\ LET l == StartServerSync(holesailServers, T(id).index)
           IN  /\ holesailServers' = l
               /\ IF StartServerOpens(l, T(id).index)
                  THEN /\ live' = Constructed(live, nextHs)
                       /\ nextHs' = nextHs + 1
                       /\ tasks' = Upd(id, "open", T(id).index, nextHs, T(id).doc)
                       /\ UNCHANGED <<activeCount, reply>>
                  ELSE /\ Reply(id, 200, T(id).index)
                       /\ UNCHANGED <<live, nextHs>>
     \/ /\ disk' = disk
        /\ Failure(id)
        /\ UNCHANGED <<holesailServers, live, nextHs>>
  /\ UNCHANGED <<phase, sweep, holesailClients, queue>>
  /\ UNCHANGED <<settings, authVars>>

PostServersOpened(id) ==
  /\ Running(id, PostServersRoute, "open")
  /\ \/ /\ holesailServers' = StartServerReady(holesailServers, T(id).index, T(id).hs)
        /\ live' = Opened(live, T(id).hs)
     \/ /\ holesailServers' = StartServerCatch(holesailServers, T(id).index)
        /\ live' = OpenFailed(live, T(id).hs)
  /\ Reply(id, 200, T(id).index)
  /\ UNCHANGED <<phase, sweep, disk, holesailClients, nextHs, queue>>
  /\ UNCHANGED <<settings, authVars>>

\* ----------------------------------------------- PATCH /api/servers/:index
\* from the return of stopServer to the next await
PatchServersResume(id, index, stopped, lv, threw) ==
  LET l == StartServerSync(Install(stopped, index, ServerCfg(T(id).body)), index)
  IN  /\ holesailServers' = l
      /\ IF StartServerOpens(l, index)
         THEN /\ live' = Constructed(lv, nextHs)
              /\ nextHs' = nextHs + 1
              /\ tasks' = UpdStopped(id, "open", index, nextHs, EmptyDoc, threw)
         ELSE /\ live' = lv
              /\ nextHs' = nextHs
              /\ tasks' = UpdStopped(id, "write", index, 0,
                                     Document(l, holesailClients), threw)
      /\ UNCHANGED <<activeCount, reply>>

PatchServers(id) ==
  /\ Running(id, PatchServersRoute, "start")
  /\ LET pi == parseInt(T(id).param)
     IN  IF BadIndex(holesailServers, pi)
         THEN Reply(id, 404, -1) /\ UNCHANGED <<holesailServers, live, nextHs>>
         ELSE IF ~T(id).body.present
         THEN Failure(id) /\ UNCHANGED <<holesailServers, live, nextHs>>
         ELSE IF ~ValidServerFields(T(id).body)
         THEN Reply(id, 400, -1) /\ UNCHANGED <<holesailServers, live, nextHs>>
         ELSE IF StopCloses(holesailServers, pi.n)
         THEN /\ holesailServers' = StopServerSync(holesailServers, pi.n)
              /\ live' = Closing(live, holesailServers[pi.n + 1].hs)
              /\ tasks' = Upd(id, "close", pi.n, 0, EmptyDoc)
              /\ UNCHANGED <<nextHs, activeCount, reply>>
         ELSE PatchServersResume(id, pi.n,
                StopServerDone(StopServerSync(holesailServers, pi.n), pi.n), live, FALSE)
  /\ UNCHANGED <<phase, sweep, disk, holesailClients, queue>>
  /\ UNCHANGED <<settings, authVars>>

PatchServersClosed(id) ==
  /\ Running(id, PatchServersRoute, "close")
  /\ InRange(holesailServers, T(id).index)
  /\ \E threw \in BOOLEAN :
       IF StopRethrows(threw)
       THEN /\ Failure(id)
            /\ live' = Closed(live, holesailServers[T(id).index + 1].hs)
            /\ UNCHANGED <<holesailServers, nextHs>>
       ELSE PatchServersResume(id, T(id).index,
              StopServerDone(holesailServers, T(id).index),
              Closed(live, holesailServers[T(id).index + 1].hs), threw)
  /\ UNCHANGED <<phase, sweep, disk, holesailClients, queue>>
  /\ UNCHANGED <<settings, authVars>>

PatchServersOpened(id) ==
  /\ Running(id, PatchServersRoute, "open")
  /\ \/ /\ holesailServers' = StartServerReady(holesailServers, T(id).index, T(id).hs)
        /\ live' = Opened(live, T(id).hs)
     \/ /\ holesailServers' = StartServerCatch(holesailServers, T(id).index)
        /\ live' = OpenFailed(live, T(id).hs)
  /\ tasks' = Upd(id, "write", T(id).index, 0,
                  Document(holesailServers', holesailClients))
  /\ UNCHANGED <<phase, sweep, disk, holesailClients, nextHs, queue, activeCount, reply>>
  /\ UNCHANGED <<settings, authVars>>

PatchServersWritten(id) ==
  /\ Running(id, PatchServersRoute, "write")
  /\ \/ disk' = T(id).doc /\ Reply(id, 200, -1)
     \/ disk' = disk /\ Failure(id)
  /\ UNCHANGED <<phase, sweep, holesailServers, holesailClients, live, nextHs, queue>>
  /\ UNCHANGED <<settings, authVars>>

\* ---------------------------------------------- DELETE /api/servers/:index
DeleteServersResume(id, index, stopped, threw) ==
  LET l == Splice(stopped, index)
  IN  /\ holesailServers' = l
      /\ tasks' = UpdStopped(id, "write", index, 0, Document(l, holesailClients), threw)
      /\ UNCHANGED <<activeCount, reply>>

DeleteServers(id) ==
  /\ Running(id, DeleteServersRoute, "start")
  /\ LET pi == parseInt(T(id).param)
     IN  IF BadIndex(holesailServers, pi)
         THEN Reply(id, 404, -1) /\ UNCHANGED <<holesailServers, live>>
         ELSE IF StopCloses(holesailServers, pi.n)
         THEN /\ holesailServers' = StopServerSync(holesailServers, pi.n)
              /\ live' = Closing(live, holesailServers[pi.n + 1].hs)
              /\ tasks' = Upd(id, "close", pi.n, 0, EmptyDoc)
              /\ UNCHANGED <<activeCount, reply>>
         ELSE /\ DeleteServersResume(id, pi.n,
                   StopServerDone(StopServerSync(holesailServers, pi.n), pi.n), FALSE)
              /\ UNCHANGED live
  /\ UNCHANGED <<phase, sweep, disk, holesailClients, nextHs, queue>>
  /\ UNCHANGED <<settings, authVars>>

DeleteServersClosed(id) ==
  /\ Running(id, DeleteServersRoute, "close")
  /\ InRange(holesailServers, T(id).index)
  /\ live' = Closed(live, holesailServers[T(id).index + 1].hs)
  /\ \E threw \in BOOLEAN :
       IF StopRethrows(threw)
       THEN Failure(id) /\ UNCHANGED holesailServers
       ELSE DeleteServersResume(id, T(id).index,
              StopServerDone(holesailServers, T(id).index), threw)
  /\ UNCHANGED <<phase, sweep, disk, holesailClients, nextHs, queue>>
  /\ UNCHANGED <<settings, authVars>>

DeleteServersWritten(id) ==
  /\ Running(id, DeleteServersRoute, "write")
  /\ \/ disk' = T(id).doc /\ Reply(id, 200, -1)
     \/ disk' = disk /\ Failure(id)
  /\ UNCHANGED <<phase, sweep, holesailServers, holesailClients, live, nextHs, queue>>
  /\ UNCHANGED <<settings, authVars>>

\* ------------------------------------------------------ POST /api/clients
PostClients(id) ==
  /\ Running(id, PostClientsRoute, "start")
  /\ IF ~T(id).body.present
     THEN Failure(id) /\ UNCHANGED holesailClients
     ELSE IF ~ValidClientFields(T(id).body)
     THEN Reply(id, 400, -1) /\ UNCHANGED holesailClients
     ELSE LET l == Append(holesailClients, NewEntry(ClientCfg(T(id).body)))
          IN  /\ holesailClients' = l
              /\ tasks' = Upd(id, "write", Len(l) - 1, 0, Document(holesailServers, l))
              /\ UNCHANGED <<activeCount, reply>>
  /\ UNCHANGED <<phase, sweep, disk, holesailServers, live, nextHs, queue>>
  /\ UNCHANGED <<settings, authVars>>

\* from the return of saveData to the next await, or to the reply
ClientsWrittenResume(id) ==
  LET l == StartClientSync(holesailClients, T(id).index)
      rindex == IF T(id).route = PostClientsRoute THEN T(id).index ELSE -1
  IN  /\ holesailClients' = l
      /\ IF StartClientOpens(l, T(id).index)
         THEN /\ live' = Constructed(live, nextHs)
              /\ nextHs' = nextHs + 1
              /\ tasks' = Upd(id, "open", T(id).index, nextHs, T(id).doc)
              /\ UNCHANGED <<activeCount, reply>>
         ELSE /\ Reply(id, 200, rindex)
              /\ UNCHANGED <<live, nextHs>>

PostClientsWritten(id) ==
  /\ Running(id, PostClientsRoute, "write")
  /\ \/ /\ disk' = T(id).doc
        /\ ClientsWrittenResume(id)
     \/ /\ disk' = disk
        /\ Failure(id)
        /\ UNCHANGED <<holesailClients, live, nextHs>>
  /\ UNCHANGED <<phase, sweep, holesailServers, queue>>
  /\ UNCHANGED <<settings, authVars>>

PostClientsOpened(id) ==
  /\ Running(id, PostClientsRoute, "open")
  /\ \/ /\ holesailClients' = StartClientReady(holesailClients, T(id).index, T(id).hs)
        /\ live' = Opened(live, T(id).hs)
     \/ /\ holesailClients' = StartClientCatch(holesailClients, T(id).index)
        /\ live' = OpenFailed(live, T(id).hs)
  /\ Reply(id, 200, T(id).index)
  /\ UNCHANGED <<phase, sweep, disk, holesailServers, nextHs, queue>>
  /\ UNCHANGED <<settings, authVars>>

\* ----------------------------------------------- PATCH /api/clients/:index
\* from the return of stopClient to the await of saveData
PatchClientsResume(id, index, stopped, threw) ==
  LET l == Install(stopped, index, ClientCfg(T(id).body))
  IN  /\ holesailClients' = l
      /\ tasks' = UpdStopped(id, "write", index, 0, Document(holesailServers, l), threw)
      /\ UNCHANGED <<activeCount, reply>>

PatchClients(id) ==
  /\ Running(id, PatchClientsRoute, "start")
  /\ LET pi == parseInt(T(id).param)
     IN  IF BadIndex(holesailClients, pi)
         THEN Reply(id, 404, -1) /\ UNCHANGED <<holesailClients, live>>
         ELSE IF ~T(id).body.present
         THEN Failure(id) /\ UNCHANGED <<holesailClients, live>>
         ELSE IF ~ValidClientFields(T(id).body)
         THEN Reply(id, 400, -1) /\ UNCHANGED <<holesailClients, live>>
         ELSE IF StopCloses(holesailClients, pi.n)
         THEN /\ holesailClients' = StopClientSync(holesailClients, pi.n)
              /\ live' = Closing(live, holesailClients[pi.n + 1].hs)
              /\ tasks' = Upd(id, "close", pi.n, 0, EmptyDoc)
              /\ UNCHANGED <<activeCount, reply>>
         ELSE /\ PatchClientsResume(id, pi.n,
                   StopClientDone(StopClientSync(holesailClients, pi.n), pi.n), FALSE)
              /\ UNCHANGED live
  /\ UNCHANGED <<phase, sweep, disk, holesailServers, nextHs, queue>>
  /\ UNCHANGED <<settings, authVars>>

PatchClientsClosed(id) ==
  /\ Running(id, PatchClientsRoute, "close")
  /\ InRange(holesailClients, T(id).index)
  /\ live' = Closed(live, holesailClients[T(id).index + 1].hs)
  /\ \E threw \in BOOLEAN :
       IF StopRethrows(threw)
       THEN Failure(id) /\ UNCHANGED holesailClients
       ELSE PatchClientsResume(id, T(id).index,
              StopClientDone(holesailClients, T(id).index), threw)
  /\ UNCHANGED <<phase, sweep, disk, holesailServers, nextHs, queue>>
  /\ UNCHANGED <<settings, authVars>>

PatchClientsWritten(id) ==
  /\ Running(id, PatchClientsRoute, "write")
  /\ \/ /\ disk' = T(id).doc
        /\ ClientsWrittenResume(id)
     \/ /\ disk' = disk
        /\ Failure(id)
        /\ UNCHANGED <<holesailClients, live, nextHs>>
  /\ UNCHANGED <<phase, sweep, holesailServers, queue>>
  /\ UNCHANGED <<settings, authVars>>

PatchClientsOpened(id) ==
  /\ Running(id, PatchClientsRoute, "open")
  /\ \/ /\ holesailClients' = StartClientReady(holesailClients, T(id).index, T(id).hs)
        /\ live' = Opened(live, T(id).hs)
     \/ /\ holesailClients' = StartClientCatch(holesailClients, T(id).index)
        /\ live' = OpenFailed(live, T(id).hs)
  /\ Reply(id, 200, -1)
  /\ UNCHANGED <<phase, sweep, disk, holesailServers, nextHs, queue>>
  /\ UNCHANGED <<settings, authVars>>

\* ---------------------------------------------- DELETE /api/clients/:index
DeleteClientsResume(id, index, stopped, threw) ==
  LET l == Splice(stopped, index)
  IN  /\ holesailClients' = l
      /\ tasks' = UpdStopped(id, "write", index, 0, Document(holesailServers, l), threw)
      /\ UNCHANGED <<activeCount, reply>>

DeleteClients(id) ==
  /\ Running(id, DeleteClientsRoute, "start")
  /\ LET pi == parseInt(T(id).param)
     IN  IF BadIndex(holesailClients, pi)
         THEN Reply(id, 404, -1) /\ UNCHANGED <<holesailClients, live>>
         ELSE IF StopCloses(holesailClients, pi.n)
         THEN /\ holesailClients' = StopClientSync(holesailClients, pi.n)
              /\ live' = Closing(live, holesailClients[pi.n + 1].hs)
              /\ tasks' = Upd(id, "close", pi.n, 0, EmptyDoc)
              /\ UNCHANGED <<activeCount, reply>>
         ELSE /\ DeleteClientsResume(id, pi.n,
                   StopClientDone(StopClientSync(holesailClients, pi.n), pi.n), FALSE)
              /\ UNCHANGED live
  /\ UNCHANGED <<phase, sweep, disk, holesailServers, nextHs, queue>>
  /\ UNCHANGED <<settings, authVars>>

DeleteClientsClosed(id) ==
  /\ Running(id, DeleteClientsRoute, "close")
  /\ InRange(holesailClients, T(id).index)
  /\ live' = Closed(live, holesailClients[T(id).index + 1].hs)
  /\ \E threw \in BOOLEAN :
       IF StopRethrows(threw)
       THEN Failure(id) /\ UNCHANGED holesailClients
       ELSE DeleteClientsResume(id, T(id).index,
              StopClientDone(holesailClients, T(id).index), threw)
  /\ UNCHANGED <<phase, sweep, disk, holesailServers, nextHs, queue>>
  /\ UNCHANGED <<settings, authVars>>

DeleteClientsWritten(id) ==
  /\ Running(id, DeleteClientsRoute, "write")
  /\ \/ disk' = T(id).doc /\ Reply(id, 200, -1)
     \/ disk' = disk /\ Failure(id)
  /\ UNCHANGED <<phase, sweep, holesailServers, holesailClients, live, nextHs, queue>>
  /\ UNCHANGED <<settings, authVars>>

\* ------------------------------------------------------------ start()
NoSweep == [i |-> 0, hs |-> 0]

\* ensureDataFile: dataFile unset, or mkdir fails: start() exits
BootFatal ==
  /\ phase = "boot"
  /\ phase' = "exited"
  /\ UNCHANGED <<sweep, disk, holesailServers, holesailClients, live, nextHs,
                 queue, activeCount, reply, tasks>>
  /\ UNCHANGED <<settings, authVars>>

\* ensureDataFile: the document is read and its entries pushed
BootLoad ==
  /\ phase = "boot"
  /\ disk.ok
  /\ holesailServers' = [i \in DOMAIN disk.servers |-> NewEntry(disk.servers[i])]
  /\ holesailClients' = [i \in DOMAIN disk.clients |-> NewEntry(disk.clients[i])]
  /\ phase' = "servers"
  /\ UNCHANGED <<sweep, disk, live, nextHs, queue, activeCount, reply, tasks>>
  /\ UNCHANGED <<settings, authVars>>

\* ensureDataFile: the document is missing or unreadable: saveData() of the
\* empty lists; when that write fails too, start() exits
BootReset ==
  /\ phase = "boot"
  /\ ~disk.ok
  /\ \/ disk' = Document(holesailServers, holesailClients) /\ phase' = "servers"
     \/ disk' = disk /\ phase' = "exited"
  /\ UNCHANGED <<sweep, holesailServers, holesailClients, live, nextHs, queue,
                 activeCount, reply, tasks>>
  /\ UNCHANGED <<settings, authVars>>

\* for (i ...) await startServer(i): up to the await of ready()
SweepServer ==
  /\ phase = "servers"
  /\ sweep.hs = 0
  /\ sweep.i < Len(holesailServers)
  /\ LET l == StartServerSync(holesailServers, sweep.i)
     IN  /\ holesailServers' = l
         /\ IF StartServerOpens(l, sweep.i)
            THEN /\ live' = Constructed(live, nextHs)
                 /\ nextHs' = nextHs + 1
                 /\ sweep' = [sweep EXCEPT !.hs = nextHs]
            ELSE /\ sweep' = [sweep EXCEPT !.i = @ + 1]
                 /\ UNCHANGED <<live, nextHs>>
  /\ UNCHANGED <<phase, disk, holesailClients, queue, activeCount, reply, tasks>>
  /\ UNCHANGED <<settings, authVars>>

SweepServerOpened ==
  /\ phase = "servers"
  /\ sweep.hs # 0
  /\ \/ /\ holesailServers' = StartServerReady(holesailServers, sweep.i, sweep.hs)
        /\ live' = Opened(live, sweep.hs)
     \/ /\ holesailServers' = StartServerCatch(holesailServers, sweep.i)
        /\ live' = OpenFailed(live, sweep.hs)
  /\ sweep' = [i |-> sweep.i + 1, hs |-> 0]
  /\ UNCHANGED <<phase, disk, holesailClients, nextHs, queue, activeCount, reply, tasks>>
  /\ UNCHANGED <<settings, authVars>>

SweepServersEnd ==
  /\ phase = "servers"
  /\ sweep.hs = 0
  /\ sweep.i >= Len(holesailServers)
  /\ phase' = "clients"
  /\ sweep' = NoSweep
  /\ UNCHANGED <<disk, holesailServers, holesailClients, live, nextHs, queue,
                 activeCount, reply, tasks>>
  /\ UNCHANGED <<settings, authVars>>

SweepClient ==
  /\ phase = "clients"
  /\ sweep.hs = 0
  /\ sweep.i < Len(holesailClients)
  /\ LET l == StartClientSync(holesailClients, sweep.i)
     IN  /\ holesailClients' = l
         /\ IF StartClientOpens(l, sweep.i)
            THEN /\ live' = Constructed(live, nextHs)
                 /\ nextHs' = nextHs + 1
                 /\ sweep' = [sweep EXCEPT !.hs = nextHs]
            ELSE /\ sweep' = [sweep EXCEPT !.i = @ + 1]
                 /\ UNCHANGED <<live, nextHs>>
  /\ UNCHANGED <<phase, disk, holesailServers, queue, activeCount, reply, tasks>>
  /\ UNCHANGED <<settings, authVars>>

SweepClientOpened ==
  /\ phase = "clients"
  /\ sweep.hs # 0
  /\ \/ /\ holesailClients' = StartClientReady(holesailClients, sweep.i, sweep.hs)
        /\ live' = Opened(live, sweep.hs)
     \/ /\ holesailClients' = StartClientCatch(holesailClients, sweep.i)
        /\ live' = OpenFailed(live, sweep.hs)
  /\ sweep' = [i |-> sweep.i + 1, hs |-> 0]
  /\ UNCHANGED <<phase, disk, holesailServers, nextHs, queue, activeCount, reply, tasks>>
  /\ UNCHANGED <<settings, authVars>>

\* fastify.listen: requests are accepted from here on; when it fails,
\* start() exits
Listen ==
  /\ phase = "clients"
  /\ sweep.hs = 0
  /\ sweep.i >= Len(holesailClients)
  /\ phase' \in {"listening", "exited"}
  /\ UNCHANGED <<sweep, disk, holesailServers, holesailClients, live, nextHs,
                 queue, activeCount, reply, tasks>>
  /\ UNCHANGED <<settings, authVars>>

\* ----------------------------------------------------------------- auth.js
refreshTokenExpirySeconds == 604800
maxSessions == 100

\* Maps (sessionsById, sessionIdByRefreshTokenHash) as functions
EmptyMap == <<>>
MapSet(m, k, v) == [x \in DOMAIN m \cup {k} |-> IF x = k THEN v ELSE m[x]]
MapDelete(m, k) == [x \in DOMAIN m \ {k} |-> m[x]]

\* createRefreshToken(): RefreshToken(n) is the n-th string drawn from
\* crypto.randomBytes(32), n >= 1; the other values a caller can pass for a
\* refresh token are a string that was never issued, the empty string, and
\* no string at all
RefreshToken(n) == n
UnknownToken    == 0
EmptyToken      == UnknownToken - 1
UndefinedToken  == UnknownToken - 2
\* !refreshToken || typeof refreshToken !== 'string'
NotAToken(refreshToken) == refreshToken < UnknownToken

\* the SHA-256 digest (hex) of a token: one digest per token, and no digest
\* is a token a caller holds
DigestBase == 1000
hashRefreshToken(refreshToken) == DigestBase + refreshToken

\* crypto.randomUUID(): the n-th session id; and an id that was never issued
UnknownId == 0
\* exceptSessionId = null
NullId == UnknownId - 1

\* what createSession and refreshSession return, null included, and what
\* isSessionActive returns (in ok)
Value(ok, sessionId, refreshToken, refreshExpiresAt) ==
  [ok |-> ok, sessionId |-> sessionId, refreshToken |-> refreshToken,
   refreshExpiresAt |-> refreshExpiresAt]
Null == Value(FALSE, UnknownId, UndefinedToken, 0)
Void == Value(TRUE, UnknownId, UndefinedToken, 0)

\* the two maps of the module, as one value
Registry == [s |-> sessionsById, h |-> sessionIdByRefreshTokenHash]

invalidateSessionKeepsHash(R, sessionId) == [R EXCEPT !.s = MapDelete(@, sessionId)]
invalidateSession(R, sessionId) ==
  [s |-> MapDelete(R.s, sessionId),
   h |-> IF sessionId \in DOMAIN R.s
         THEN MapDelete(R.h, R.s[sessionId].refreshTokenHash)
         ELSE R.h]

\* session.refreshExpiresAt < now, at each of its three sites
sweepExpiredNever(session, t) == FALSE
sweepExpired(session, t) == session.refreshExpiresAt < t
refreshExpiredAtExpiry(session, t) == session.refreshExpiresAt <= t
refreshNeverExpires(session, t) == FALSE
refreshExpired(session, t) == session.refreshExpiresAt < t
activeExpiredAtExpiry(session, t) == session.refreshExpiresAt <= t
activeExpired(session, t) == session.refreshExpiresAt < t

\* a sweep that deletes the expired sessions and leaves their hashes indexed
cleanupExpiredSessionsKeepsIndex(R, t) ==
  [R EXCEPT !.s = [id \in {x \in DOMAIN R.s : ~(R.s[x].refreshExpiresAt < t)} |-> R.s[id]]]
\* for (const [sessionId, session] of sessionsById): invalidateSession of
\* every expired one, which deletes that session and the hash it holds
cleanupExpiredSessions(R, t) ==
  LET expired == {id \in DOMAIN R.s : sweepExpired(R.s[id], t)}
      hashes  == {R.s[id].refreshTokenHash : id \in expired}
  IN  [s |-> [id \in DOMAIN R.s \ expired |-> R.s[id]],
       h |-> [x \in DOMAIN R.h \ hashes |-> R.h[x]]]

AtCapacityOffByOne(size) == maxSessions < size
\* maxSessions <= sessionsById.size
AtCapacity(size) == maxSessions <= size

RefuseEvicting(R) ==
  [reg |-> invalidateSession(R, CHOOSE id \in DOMAIN R.s : \A o \in DOMAIN R.s : id <= o),
   value |-> Null]
\* return null
Refuse(R) == [reg |-> R, value |-> Null]

createSession(R, t, sessionId, refreshToken) ==
  LET C == cleanupExpiredSessions(R, t)
  IN  IF AtCapacity(Cardinality(DOMAIN C.s)) THEN Refuse(C)
      ELSE LET refreshExpiresAt == t + refreshTokenExpirySeconds
               refreshTokenHash == hashRefreshToken(refreshToken)
           IN  [reg |-> [s |-> MapSet(C.s, sessionId,
                                      [refreshTokenHash |-> refreshTokenHash,
                                       issuedAt |-> t,
                                       refreshExpiresAt |-> refreshExpiresAt]),
                         h |-> MapSet(C.h, refreshTokenHash, sessionId)],
                value |-> Value(TRUE, sessionId, refreshToken, refreshExpiresAt)]

\* a rotation that also renews the life of the session
RotateExtends(R, sessionId, old, new) ==
  [s |-> [R.s EXCEPT ![sessionId].refreshTokenHash = new,
                     ![sessionId].refreshExpiresAt = @ + refreshTokenExpirySeconds],
   h |-> MapSet(MapDelete(R.h, old), new, sessionId)]
RotateKeepsOld(R, sessionId, old, new) ==
  [s |-> [R.s EXCEPT ![sessionId].refreshTokenHash = new],
   h |-> MapSet(R.h, new, sessionId)]
\* delete the presented hash, store the new one in the session and the index
Rotate(R, sessionId, old, new) ==
  [s |-> [R.s EXCEPT ![sessionId].refreshTokenHash = new],
   h |-> MapSet(MapDelete(R.h, old), new, sessionId)]

refreshSession(R, t, refreshToken, newRefreshToken) ==
  IF NotAToken(refreshToken) THEN [reg |-> R, value |-> Null]
  ELSE LET refreshTokenHash == hashRefreshToken(refreshToken)
       IN  IF refreshTokenHash \notin DOMAIN R.h THEN [reg |-> R, value |-> Null]
           ELSE LET sessionId == R.h[refreshTokenHash]
                IN  IF sessionId \notin DOMAIN R.s
                    THEN [reg |-> [R EXCEPT !.h = MapDelete(@, refreshTokenHash)],
                          value |-> Null]
                    ELSE IF refreshExpired(R.s[sessionId], t)
                    THEN [reg |-> [s |-> MapDelete(R.s, sessionId),
                                   h |-> MapDelete(R.h, refreshTokenHash)],
                          value |-> Null]
                    ELSE [reg |-> Rotate(R, sessionId, refreshTokenHash,
                                         hashRefreshToken(newRefreshToken)),
                          value |-> Value(TRUE, sessionId, newRefreshToken,
                                          R.s[sessionId].refreshExpiresAt)]

invalidateAllSessionsDropsAll(R, exceptSessionId) == [s |-> EmptyMap, h |-> EmptyMap]
invalidateAllSessions(R, exceptSessionId) ==
  IF exceptSessionId # NullId /\ exceptSessionId \in DOMAIN R.s
  THEN [s |-> MapSet(EmptyMap, exceptSessionId, R.s[exceptSessionId]),
        h |-> MapSet(EmptyMap, R.s[exceptSessionId].refreshTokenHash, exceptSessionId)]
  ELSE [s |-> EmptyMap, h |-> EmptyMap]

invalidateSessionByRefreshToken(R, refreshToken) ==
  IF NotAToken(refreshToken) THEN R
  ELSE IF hashRefreshToken(refreshToken) \notin DOMAIN R.h THEN R
  ELSE invalidateSession(R, R.h[hashRefreshToken(refreshToken)])

isSessionActive(R, t, sessionId) ==
  IF sessionId \notin DOMAIN R.s THEN [reg |-> R, value |-> FALSE]
  ELSE IF activeExpired(R.s[sessionId], t)
       THEN [reg |-> invalidateSession(R, sessionId), value |-> FALSE]
       ELSE [reg |-> R, value |-> TRUE]

NoResult == [op |-> "", sessionId |-> UnknownId, refreshToken |-> UndefinedToken,
             value |-> Null]

\* the credential record of the server: none, or a stored scrypt record
NoPassword == [set |-> FALSE]
StoredHash == [set |-> TRUE]

\* an access token: the payload { sid }, its exp claim, and whether the
\* signature is the server's
Jwt(sid, exp, signed) == [sid |-> sid, exp |-> exp, signed |-> signed]
\* the Authorization header of a request: `bearer` when it starts with
\* 'Bearer ' and a token follows
NoHeader == [bearer |-> FALSE, token |-> Jwt(UnknownId, 0, FALSE)]
Bearer(token) == [bearer |-> TRUE, token |-> token]
\* the last decision of requireAuth: the route, the header, and 401, 200
\* (settings returned) or 0 (the mutation went on to mutationLimit)
Decision(route, header, code) == [route |-> route, header |-> header, code |-> code]
NoGate == Decision("", NoHeader, 0)

\* no call of hashPassword or verifyPassword yet; `known` tells whether the
\* credential record is one hashPassword made in this behaviour, from `hashed`
NoCall == [op |-> "", password |-> <<>>, outcome |-> "", known |-> FALSE, hashed |-> <<>>]

\* the module before any call, and the server with no credential record
AuthIdle ==
  /\ now = 0
  /\ sessionsById = EmptyMap
  /\ sessionIdByRefreshTokenHash = EmptyMap
  /\ nextUuid = 1
  /\ nextToken = 1
  /\ authResult = NoResult
  /\ passwordHash = NoPassword
  /\ accessTokens = {}
  /\ gate = NoGate
  /\ passwordCall = NoCall

\* the sessions a registry holds when a behaviour of SpecAuth starts
Preloaded == maxSessions

\* ---- the calls of the module, as steps
Called(op, sessionId, refreshToken, value) ==
  [op |-> op, sessionId |-> sessionId, refreshToken |-> refreshToken, value |-> value]

\* the arguments callers pass: the MaxHeld refresh tokens, and session ids,
\* issued last, and the values that were never issued
HeldTokens ==
  {RefreshToken(n) : n \in {k \in 1..(nextToken - 1) : k + MaxHeld >= nextToken}}
  \cup {UnknownToken, EmptyToken, UndefinedToken}
HeldIds ==
  {k \in 1..(nextUuid - 1) : k + MaxHeld >= nextUuid} \cup {UnknownId}

SetRegistry(R) ==
  /\ sessionsById' = R.s
  /\ sessionIdByRefreshTokenHash' = R.h

\* the clock advances, by a second or by the life of a session
TickSteps == {1, refreshTokenExpirySeconds}
TickCount(t) == (t \div refreshTokenExpirySeconds) + (t % refreshTokenExpirySeconds)
Tick ==
  /\ TickCount(now) < MaxTicks
  /\ \E d \in TickSteps : now' = now + d
  /\ UNCHANGED <<sessionsById, sessionIdByRefreshTokenHash, nextUuid, nextToken,
                 authResult, passwordHash, accessTokens, gate, passwordCall>>
  /\ UNCHANGED serverVars

CreateSession ==
  /\ LET out == createSession(Registry, now, nextUuid, RefreshToken(nextToken))
     IN  /\ out.value.ok => nextToken - Preloaded - 1 < MaxIssued
         /\ SetRegistry(out.reg)
         /\ authResult' = Called("createSession", UnknownId, UndefinedToken, out.value)
         /\ nextUuid' = IF out.value.ok THEN nextUuid + 1 ELSE nextUuid
         /\ nextToken' = IF out.value.ok THEN nextToken + 1 ELSE nextToken
  /\ UNCHANGED <<now, passwordHash, accessTokens, gate, passwordCall>>
  /\ UNCHANGED serverVars

RefreshSession ==
  /\ \E refreshToken \in HeldTokens :
       LET out == refreshSession(Registry, now, refreshToken, RefreshToken(nextToken))
       IN  /\ out.value.ok => nextToken - Preloaded - 1 < MaxIssued
           /\ SetRegistry(out.reg)
           /\ authResult' = Called("refreshSession", UnknownId, refreshToken, out.value)
           /\ nextToken' = IF out.value.ok THEN nextToken + 1 ELSE nextToken
  /\ UNCHANGED <<now, nextUuid, passwordHash, accessTokens, gate, passwordCall>>
  /\ UNCHANGED serverVars

InvalidateSession ==
  /\ \E sessionId \in HeldIds :
       /\ SetRegistry(invalidateSession(Registry, sessionId))
       /\ authResult' = Called("invalidateSession", sessionId, UndefinedToken, Void)
  /\ UNCHANGED <<now, nextUuid, nextToken, passwordHash, accessTokens, gate, passwordCall>>
  /\ UNCHANGED serverVars

InvalidateSessionByRefreshToken ==
  /\ \E refreshToken \in HeldTokens :
       /\ SetRegistry(invalidateSessionByRefreshToken(Registry, refreshToken))
       /\ authResult' = Called("invalidateSessionByRefreshToken", UnknownId,
                               refreshToken, Void)
  /\ UNCHANGED <<now, nextUuid, nextToken, passwordHash, accessTokens, gate, passwordCall>>
  /\ UNCHANGED serverVars

InvalidateAllSessions ==
  /\ \E exceptSessionId \in HeldIds \cup {NullId} :
       /\ SetRegistry(invalidateAllSessions(Registry, exceptSessionId))
       /\ authResult' = Called("invalidateAllSessions", exceptSessionId,
                               UndefinedToken, Void)
  /\ UNCHANGED <<now, nextUuid, nextToken, passwordHash, accessTokens, gate, passwordCall>>
  /\ UNCHANGED serverVars

IsSessionActive ==
  /\ \E sessionId \in HeldIds :
       LET out == isSessionActive(Registry, now, sessionId)
       IN  /\ SetRegistry(out.reg)
           /\ authResult' = Called("isSessionActive", sessionId, UndefinedToken,
                                   Value(out.value, UnknownId, UndefinedToken, 0))
  /\ UNCHANGED <<now, nextUuid, nextToken, passwordHash, accessTokens, gate, passwordCall>>
  /\ UNCHANGED serverVars

\* the interval timer of initAuth fires
CleanupExpiredSessions ==
  /\ SetRegistry(cleanupExpiredSessions(Registry, now))
  /\ authResult' = Called("cleanupExpiredSessions", UnknownId, UndefinedToken, Void)
  /\ UNCHANGED <<now, nextUuid, nextToken, passwordHash, accessTokens, gate, passwordCall>>
  /\ UNCHANGED serverVars

\* ------------------------------------------ hashPassword / verifyPassword
keyLength  == 64
saltLength == 32
defaultScryptParams == [N |-> 16384, r |-> 8, p |-> 1, maxmem |-> 67108864]
\* the parameters nodeCrypto.scrypt uses for those its options do not give
LibraryScryptParams == [N |-> 16384, r |-> 8, p |-> 1, maxmem |-> 33554432]

\* strings are sequences of characters; a password is a sequence of UTF-16
\* code units, which is what a JavaScript string is
Colon == ":"
Comma == ","
HexDigits == <<"0", "1", "2", "3", "4", "5", "6", "7", "8", "9",
               "a", "b", "c", "d", "e", "f">>
UpperHexDigits == <<"A", "B", "C", "D", "E", "F">>

\* buffer.toString('hex')
toHex(bytes) ==
  [i \in 1..(2 * Len(bytes)) |->
     IF i % 2 = 1 THEN HexDigits[(bytes[(i + 1) \div 2] \div 16) + 1]
                  ELSE HexDigits[(bytes[i \div 2] % 16) + 1]]

\* the value of each hexadecimal digit
HexTable ==
  [c \in {HexDigits[i] : i \in 1..16} \cup {UpperHexDigits[i] : i \in 1..6} |->
     IF \E i \in 1..16 : HexDigits[i] = c
     THEN (CHOOSE i \in 1..16 : HexDigits[i] = c) - 1
     ELSE (CHOOSE i \in 1..6 : UpperHexDigits[i] = c) + 9]

\* the value of a hexadecimal digit, -1 for any other character
HexValue(c) == IF c \in DOMAIN HexTable THEN HexTable[c] ELSE -1

\* Buffer.from(text, 'hex'): the bytes of the pairs of digits up to the first
\* pair that is not hexadecimal; a trailing single character is dropped
fromHex(text) ==
  LET bad == {k \in 1..(Len(text) \div 2) :
                HexValue(text[2 * k - 1]) < 0 \/ HexValue(text[2 * k]) < 0}
      n   == IF bad = {} THEN Len(text) \div 2
             ELSE (CHOOSE k \in bad : \A j \in bad : k <= j) - 1
  IN  [i \in 1..n |-> 16 * HexValue(text[2 * i - 1]) + HexValue(text[2 * i])]

RECURSIVE Split(_, _)
\* text.split(separator)
Split(text, separator) ==
  LET found == {i \in 1..Len(text) : text[i] = separator}
  IN  IF found = {} THEN <<text>>
      ELSE LET at == CHOOSE i \in found : \A j \in found : i <= j
           IN  <<SubSeq(text, 1, at - 1)>> \o Split(SubSeq(text, at + 1, Len(text)), separator)

RECURSIVE ToDecimal(_)
\* `${n}` for an integer n >= 0
ToDecimal(n) ==
  IF n < 10 THEN <<HexDigits[n + 1]>>
  ELSE ToDecimal(n \div 10) \o <<HexDigits[(n % 10) + 1]>>

encodeScryptParams(params) ==
  ToDecimal(params.N) \o <<Comma>> \o ToDecimal(params.r) \o <<Comma>>
    \o ToDecimal(params.p) \o <<Comma>> \o ToDecimal(params.maxmem)

\* Number.isSafeInteger(v) && v > 0 of a parseInt result (every integer of
\* the model is far below 2^53)
SafePositive(v) == ~v.nan /\ v.n > 0

\* decodeScryptParams of a string: null, or the four numbers
NullParams == [null |-> TRUE, N |-> 0, r |-> 0, p |-> 0, maxmem |-> 0]
decodeScryptParams(encoded) ==
  LET parts == Split(encoded, Comma)
  IN  IF Len(parts) # 4 THEN NullParams
      ELSE LET v == [i \in 1..4 |-> parseInt(parts[i])]
           IN  IF \E i \in 1..4 : ~SafePositive(v[i]) THEN NullParams
               ELSE [null |-> FALSE, N |-> v[1].n, r |-> v[2].n, p |-> v[3].n,
                     maxmem |-> v[4].n]

RECURSIVE utf8(_)
\* the UTF-8 bytes of a string, as nodeCrypto.scrypt takes them of a string
\* password: a surrogate pair is one code point of four bytes, a surrogate
\* on its own is replaced by U+FFFD
utf8(units) ==
  IF units = <<>> THEN <<>>
  ELSE LET c    == Head(units)
           high == c >= 55296 /\ c <= 56319
           low  == c >= 56320 /\ c <= 57343
       IN  IF c < 128 THEN <<c>> \o utf8(Tail(units))
           ELSE IF c < 2048
           THEN <<192 + (c \div 64), 128 + (c % 64)>> \o utf8(Tail(units))
           ELSE IF high /\ Len(units) >= 2 /\ units[2] >= 56320 /\ units[2] <= 57343
           THEN LET cp == 65536 + (c - 55296) * 1024 + (units[2] - 56320)
                IN  <<240 + (cp \div 262144), 128 + ((cp \div 4096) % 64),
                      128 + ((cp \div 64) % 64), 128 + (cp % 64)>>
                    \o utf8(SubSeq(units, 3, Len(units)))
           ELSE IF high \/ low
           THEN <<239, 191, 189>> \o utf8(Tail(units))
           ELSE <<224 + (c \div 4096), 128 + ((c \div 64) % 64), 128 + (c % 64)>>
                \o utf8(Tail(units))

\* the parameters nodeCrypto.scrypt accepts: N a power of two above 1, and
\* 128 * N * r within maxmem
ScryptAccepts(params) ==
  /\ params.N \in {2, 4, 8, 16, 32, 64, 128, 256, 512, 1024, 2048, 4096, 8192,
                   16384, 32768, 65536}
  /\ params.r >= 1 /\ params.r <= 64
  /\ params.p >= 1
  /\ 128 * params.N * params.r <= params.maxmem

\* nodeCrypto.scrypt as an ideal key derivation: keylen bytes that differ as
\* soon as the password bytes, the salt or N, r, p differ
scrypt(password, salt, keylen, params) ==
  LET material == <<Len(password)>> \o password \o <<Len(salt)>> \o salt
                    \o <<(params.N \div 256) % 256, params.N % 256,
                         params.r % 256, params.p % 256>>
  IN  [i \in 1..keylen |-> IF i <= Len(material) THEN material[i] ELSE 0]

\* hashPassword, for the salt nodeCrypto.randomBytes(saltLength) returns
hashPassword(password, salt) ==
  toHex(salt) \o <<Colon>>
    \o toHex(scrypt(utf8(password), salt, keyLength, defaultScryptParams))
    \o <<Colon>> \o encodeScryptParams(defaultScryptParams)

timingSafeEqualLoose(a, b) == TRUE
\* nodeCrypto.timingSafeEqual of two buffers of one length
timingSafeEqual(a, b) == a = b

\* verifyPassword: "true", "false", or "rejects" when the promise rejects.
\* libraryDefaults: whether nodeCrypto.scrypt takes null options for its
\* defaults (otherwise it throws)
verifyPassword(password, storedHash, libraryDefaults) ==
  LET segments == Split(storedHash, Colon)
  IN  IF segments[1] = <<>> \/ Len(segments) < 2 THEN "false"
      ELSE IF segments[2] = <<>> THEN "false"
      ELSE IF Len(segments) < 3 THEN "rejects"
      ELSE LET salt      == fromHex(segments[1])
               storedKey == fromHex(segments[2])
               decoded   == decodeScryptParams(segments[3])
               params    == IF decoded.null THEN LibraryScryptParams ELSE decoded
           IN  IF decoded.null /\ ~libraryDefaults THEN "rejects"
               ELSE IF ~ScryptAccepts(params) THEN "rejects"
               ELSE LET derivedKey == scrypt(utf8(password), salt, keyLength, params)
                    IN  IF Len(derivedKey) # Len(storedKey) THEN "false"
                        ELSE IF timingSafeEqual(derivedKey, storedKey) THEN "true"
                        ELSE "false"

\* the credential record as a string
StoredRecord(text) == [set |-> TRUE, text |-> text]

\* ---- the inputs
\* code units: a letter, a high and a low surrogate, and U+FFFD
PasswordUnits == {97, 55296, 56320, 65533}
Passwords == UNION {[1..k -> PasswordUnits] : k \in 0..MaxPassword}
Salts == {[i \in 1..saltLength |-> 0], [i \in 1..saltLength |-> 171]}

\* the textual form of a record whose params are `params`
RecordText(saltHex, keyHex, params) ==
  saltHex \o <<Colon>> \o keyHex \o <<Colon>> \o params

\* "salt:derivedKey", the record without its third segment
WithoutParams(text) ==
  LET segments == Split(text, Colon) IN segments[1] \o <<Colon>> \o segments[2]

\* a record hashPassword can have written: three segments, a salt of
\* saltLength bytes and a key of keyLength bytes in hexadecimal, and the
\* four numbers
WellFormed(text) ==
  LET segments == Split(text, Colon)
  IN  /\ Len(segments) = 3
      /\ Len(segments[1]) = 2 * saltLength
      /\ Len(fromHex(segments[1])) = saltLength
      /\ Len(segments[2]) = 2 * keyLength
      /\ Len(fromHex(segments[2])) = keyLength
      /\ ~decodeScryptParams(segments[3]).null

\* the records a data file can hold that hashPassword did not write
LoadedRecords ==
  LET good == hashPassword(<<97>>, [i \in 1..saltLength |-> 0])
      segs == Split(good, Colon)
  IN  { <<"a", "b">>,
        <<Colon, "a", "b">>,
        <<"a", "b", Colon>>,
        <<"a", "b", Colon, "c", "d">>,
        WithoutParams(good),
        RecordText(<<"a", "b">>, <<"c", "d">>, <<"x">>),
        RecordText(segs[1], segs[2], <<"x">>),
        RecordText(<<"a", "b">>, <<"c", "d">>, <<"1", Comma, "2", Comma, "3">>),
        RecordText(segs[1], segs[2], <<"3", Comma, "8", Comma, "1", Comma, "9", "9", "9", "9">>),
        RecordText(<<"a", "b">>, <<"c", "d">>, encodeScryptParams(defaultScryptParams)),
        RecordText(<<"z", "z">>, segs[2], encodeScryptParams(defaultScryptParams)) }

PasswordCalled(op, password, outcome, known, hashed) ==
  [op |-> op, password |-> password, outcome |-> outcome, known |-> known,
   hashed |-> hashed]

\* passwordHash = await auth.hashPassword(newPassword)
HashPassword ==
  /\ \E password \in Passwords, salt \in Salts :
       /\ passwordHash' = StoredRecord(hashPassword(password, salt))
       /\ passwordCall' = PasswordCalled("hashPassword", password, "resolved", TRUE, password)
  /\ UNCHANGED <<now, sessionsById, sessionIdByRefreshTokenHash, nextUuid, nextToken,
                 authResult, accessTokens, gate>>
  /\ UNCHANGED serverVars

\* await auth.verifyPassword(password, passwordHash)
VerifyPassword ==
  /\ passwordHash.set
  /\ \E password \in Passwords, libraryDefaults \in BOOLEAN :
       passwordCall' = PasswordCalled("verifyPassword", password,
                         verifyPassword(password, passwordHash.text, libraryDefaults),
                         passwordCall.known, passwordCall.hashed)
  /\ UNCHANGED <<now, sessionsById, sessionIdByRefreshTokenHash, nextUuid, nextToken,
                 authResult, passwordHash, accessTokens, gate>>
  /\ UNCHANGED serverVars

\* ------------------------------------------- requireAuth and its routes
accessTokenExpirySeconds == 600

\* signAccessToken
signAccessToken(sessionId, t) == Jwt(sessionId, t + accessTokenExpirySeconds, TRUE)

\* fastify.jwt.verify resolves: the signature is the server's and the token
\* has not expired; whether the second `exp` itself still counts is the
\* library's choice (atExp)
jwtVerify(token, t, atExp) ==
  /\ token.signed
  /\ t < token.exp \/ (t = token.exp /\ atExp)

payloadSessionUnchecked(R, t, sessionId) == [reg |-> R, value |-> TRUE]
\* auth.isSessionActive(payload.sid)
payloadSessionActive(R, t, sessionId) == isSessionActive(R, t, sessionId)

\* requireAuth: code 0 when the handler is to run, 401 when it has replied
requireAuth(R, t, pw, header, atExp) ==
  IF pw = NoPassword THEN [reg |-> R, code |-> 0]
  ELSE IF ~header.bearer THEN [reg |-> R, code |-> 401]
  ELSE IF ~jwtVerify(header.token, t, atExp) THEN [reg |-> R, code |-> 401]
  ELSE LET active == payloadSessionActive(R, t, header.token.sid)
       IN  IF ~active.value THEN [reg |-> active.reg, code |-> 401]
           ELSE [reg |-> R, code |-> 0]

\* the headers requests carry: none, an access token the server signed, or
\* one signed by somebody else for the session issued last
Headers ==
  {NoHeader}
  \cup {Bearer(token) : token \in accessTokens}
  \cup {Bearer(Jwt(nextUuid - 1, now + accessTokenExpirySeconds, FALSE))}

\* GET /api/settings
GetSettings ==
  /\ phase = "listening"
  /\ CanRead(activeCount)
  /\ \E header \in Headers, atExp \in BOOLEAN :
       LET out == requireAuth(Registry, now, passwordHash, header, atExp)
       IN  /\ (now # header.token.exp) => atExp
           /\ SetRegistry(out.reg)
           /\ gate' = Decision("settings", header, IF out.code = 401 THEN 401 ELSE 200)
           /\ settings' = IF out.code = 401 THEN settings
                          ELSE Settings(holesailServers, holesailClients)
  /\ UNCHANGED <<now, nextUuid, nextToken, authResult, passwordHash, accessTokens,
                 passwordCall>>
  /\ UNCHANGED <<phase, sweep, disk, holesailServers, holesailClients, live, nextHs,
                 queue, activeCount, tasks, reply>>

\* a request of one of the six mutating routes arrives: requireAuth, then
\* the handler calls mutationLimit
Admit(max) ==
  /\ phase = "listening"
  /\ \E header \in Headers, atExp \in BOOLEAN :
       LET out == requireAuth(Registry, now, passwordHash, header, atExp)
       IN  /\ (now # header.token.exp) => atExp
           /\ SetRegistry(out.reg)
           /\ gate' = Decision("mutation", header, out.code)
           /\ IF out.code = 401 THEN UNCHANGED serverVars ELSE Enqueue(max)
  /\ UNCHANGED <<now, nextUuid, nextToken, authResult, passwordHash, accessTokens,
                 passwordCall>>

\* POST /api/auth/refresh
RefreshRoute ==
  /\ phase = "listening"
  /\ \E refreshToken \in HeldTokens :
       LET out == refreshSession(Registry, now, refreshToken, RefreshToken(nextToken))
       IN  /\ out.value.ok => nextToken - nextUuid < MaxIssued
           /\ SetRegistry(out.reg)
           /\ authResult' = Called("refreshSession", UnknownId, refreshToken, out.value)
           /\ nextToken' = IF out.value.ok THEN nextToken + 1 ELSE nextToken
           /\ accessTokens' = IF out.value.ok
                              THEN accessTokens \cup {signAccessToken(out.value.sessionId, now)}
                              ELSE accessTokens
  /\ UNCHANGED <<now, nextUuid, passwordHash, gate, passwordCall>>
  /\ UNCHANGED serverVars

\* POST /api/auth/logout
LogoutRoute ==
  /\ phase = "listening"
  /\ \E refreshToken \in HeldTokens :
       /\ SetRegistry(IF NotAToken(refreshToken) THEN Registry
                      ELSE invalidateSessionByRefreshToken(Registry, refreshToken))
       /\ authResult' = Called("invalidateSessionByRefreshToken", UnknownId,
                               refreshToken, Void)
  /\ UNCHANGED <<now, nextUuid, nextToken, passwordHash, accessTokens, gate, passwordCall>>
  /\ UNCHANGED serverVars

\* ------------------------------------------------------- specification
SeqsUpTo(S, n) == UNION {[1..k -> S] : k \in 0..n}

\* the entry configs this program writes: the bodies its validation accepts
PersistedServers == {ServerCfg(b) : b \in {x \in ServerBodies : ValidServerFields(x)}}
PersistedClients == {ClientCfg(b) : b \in {x \in ClientBodies : ValidClientFields(x)}}

\* the documents found on disk at start-up: none (first run), or one this
\* program wrote, of at most MaxPersisted entries
InitialDocs ==
  {MissingDoc} \cup
  {d \in [ok : {TRUE}, servers : SeqsUpTo(PersistedServers, MaxPersisted),
                       clients : SeqsUpTo(PersistedClients, MaxPersisted)] :
     Len(d.servers) + Len(d.clients) <= MaxPersisted}

Init ==
  /\ phase = "boot"
  /\ sweep = NoSweep
  /\ disk \in InitialDocs
  /\ holesailServers = <<>>
  /\ holesailClients = <<>>
  /\ live = {}
  /\ nextHs = 1
  /\ queue = <<>>
  /\ activeCount = 0
  /\ tasks = <<>>
  /\ reply = NoReply
  /\ settings = NoSettings
  /\ AuthIdle

Step(id) ==
  \/ LimitRun(id)
  \/ PostServers(id) \/ PostServersWritten(id) \/ PostServersOpened(id)
  \/ PatchServers(id) \/ PatchServersClosed(id) \/ PatchServersOpened(id)
  \/ PatchServersWritten(id)
  \/ DeleteServers(id) \/ DeleteServersClosed(id) \/ DeleteServersWritten(id)
  \/ PostClients(id) \/ PostClientsWritten(id) \/ PostClientsOpened(id)
  \/ PatchClients(id) \/ PatchClientsClosed(id) \/ PatchClientsWritten(id)
  \/ PatchClientsOpened(id)
  \/ DeleteClients(id) \/ DeleteClientsClosed(id) \/ DeleteClientsWritten(id)

Startup ==
  \/ BootFatal \/ BootLoad \/ BootReset
  \/ SweepServer \/ SweepServerOpened \/ SweepServersEnd
  \/ SweepClient \/ SweepClientOpened
  \/ Listen

Next ==
  \/ Startup
  \/ Submit(MaxRequests)
  \/ \E id \in 1..MaxRequests : Step(id)

Spec == Init /\ [][Next]_vars

\* The serializer under load: the process is listening with empty lists (as
\* after a first start) and MaxQueued requests arrive.
InitQueue ==
  /\ phase = "listening"
  /\ sweep = NoSweep
  /\ disk = EmptyDoc
  /\ holesailServers = <<>>
  /\ holesailClients = <<>>
  /\ live = {}
  /\ nextHs = 1
  /\ queue = <<>>
  /\ activeCount = 0
  /\ tasks = <<>>
  /\ reply = NoReply
  /\ settings = NoSettings
  /\ AuthIdle

NextQueue ==
  \/ Submit(MaxQueued)
  \/ \E id \in 1..MaxQueued : Step(id)

SpecQueue == InitQueue /\ [][NextQueue]_vars

NextFair ==
  \/ Submit(MaxFair)
  \/ \E id \in 1..MaxFair : Step(id)

\* every external call (close, ready, writeFile) returns, and p-limit runs
\* the next task once the running one has settled
FairSpec == InitQueue /\ [][NextFair]_vars /\ WF_vars(\E id \in 1..MaxFair : Step(id))

\* The start-up sweep alone: start() over a document of up to MaxSwept
\* servers and MaxSwept clients, up to the return (or failure) of listen.
SweptDocs ==
  {MissingDoc} \cup
  [ok : {TRUE}, servers : SeqsUpTo(PersistedServers, MaxSwept),
                clients : SeqsUpTo(PersistedClients, MaxSwept)]

InitSweep ==
  /\ phase = "boot"
  /\ sweep = NoSweep
  /\ disk \in SweptDocs
  /\ holesailServers = <<>>
  /\ holesailClients = <<>>
  /\ live = {}
  /\ nextHs = 1
  /\ queue = <<>>
  /\ activeCount = 0
  /\ tasks = <<>>
  /\ reply = NoReply
  /\ settings = NoSettings
  /\ AuthIdle

NextSweep ==
  \/ BootFatal \/ BootLoad \/ BootReset
  \/ SweepServer \/ SweepServerOpened \/ SweepServersEnd
  \/ SweepClient \/ SweepClientOpened
  \/ Listen

SpecSweep == InitSweep /\ [][NextSweep]_vars

\* The session registry on its own: Preloaded sessions, as many as the cap
\* allows, were created in second 0; then the functions auth.js exports are called in any order, the
\* timer fires and the clock advances.
PreloadedSessions ==
  [id \in 1..Preloaded |->
     [refreshTokenHash |-> hashRefreshToken(RefreshToken(id)),
      issuedAt |-> 0,
      refreshExpiresAt |-> refreshTokenExpirySeconds]]
PreloadedHashes ==
  [h \in {hashRefreshToken(RefreshToken(id)) : id \in 1..Preloaded} |-> h - DigestBase]

InitAuth ==
  /\ phase = "listening"
  /\ sweep = NoSweep
  /\ disk = EmptyDoc
  /\ holesailServers = <<>>
  /\ holesailClients = <<>>
  /\ live = {}
  /\ nextHs = 1
  /\ queue = <<>>
  /\ activeCount = 0
  /\ tasks = <<>>
  /\ reply = NoReply
  /\ settings = NoSettings
  /\ now = 0
  /\ sessionsById = PreloadedSessions
  /\ sessionIdByRefreshTokenHash = PreloadedHashes
  /\ nextUuid = Preloaded + 1
  /\ nextToken = Preloaded + 1
  /\ authResult = NoResult
  /\ passwordHash = NoPassword
  /\ accessTokens = {}
  /\ gate = NoGate
  /\ passwordCall = NoCall

NextAuth ==
  \/ Tick
  \/ CreateSession
  \/ RefreshSession
  \/ InvalidateSession
  \/ InvalidateSessionByRefreshToken
  \/ InvalidateAllSessions
  \/ IsSessionActive
  \/ CleanupExpiredSessions

SpecAuth == InitAuth /\ [][NextAuth]_vars

\* The registry left to the timer: sessions are created, rotated and asked
\* after, none is invalidated by a caller, and the interval initAuth started
\* keeps firing
NextTimer ==
  \/ Tick
  \/ CreateSession
  \/ RefreshSession
  \/ IsSessionActive
  \/ CleanupExpiredSessions

FairSpecAuth == InitAuth /\ [][NextTimer]_vars /\ WF_vars(CleanupExpiredSessions)

\* The gate: the server is listening, either with no credential record and
\* no session, or with one and the session of a login in second 0, whose
\* access token the client holds; requests of the gated routes arrive with
\* any header, sessions are refreshed and logged out, and the clock advances.
InitGate ==
  /\ phase = "listening"
  /\ sweep = NoSweep
  /\ disk = EmptyDoc
  /\ holesailServers = <<>>
  /\ holesailClients = <<>>
  /\ live = {}
  /\ nextHs = 1
  /\ queue = <<>>
  /\ activeCount = 0
  /\ tasks = <<>>
  /\ reply = NoReply
  /\ settings = NoSettings
  /\ now = 0
  /\ authResult = NoResult
  /\ gate = NoGate
  /\ passwordCall = NoCall
  /\ passwordHash \in {NoPassword, StoredHash}
  /\ LET login == createSession([s |-> EmptyMap, h |-> EmptyMap], 0, 1, RefreshToken(1))
     IN  IF passwordHash = NoPassword
         THEN /\ sessionsById = EmptyMap
              /\ sessionIdByRefreshTokenHash = EmptyMap
              /\ nextUuid = 1
              /\ nextToken = 1
              /\ accessTokens = {}
         ELSE /\ sessionsById = login.reg.s
              /\ sessionIdByRefreshTokenHash = login.reg.h
              /\ nextUuid = 2
              /\ nextToken = 2
              /\ accessTokens = {signAccessToken(login.value.sessionId, 0)}

NextGate ==
  \/ Tick
  \/ GetSettings
  \/ Admit(MaxGated)
  \/ RefreshRoute
  \/ LogoutRoute

SpecGate == InitGate /\ [][NextGate]_vars

\* The password functions on their own: the data file held no credential
\* record, or one that hashPassword did not write; passwords are hashed and
\* stored, and passwords are verified against the stored record.
InitPassword ==
  /\ phase = "listening"
  /\ sweep = NoSweep
  /\ disk = EmptyDoc
  /\ holesailServers = <<>>
  /\ holesailClients = <<>>
  /\ live = {}
  /\ nextHs = 1
  /\ queue = <<>>
  /\ activeCount = 0
  /\ tasks = <<>>
  /\ reply = NoReply
  /\ settings = NoSettings
  /\ now = 0
  /\ sessionsById = EmptyMap
  /\ sessionIdByRefreshTokenHash = EmptyMap
  /\ nextUuid = 1
  /\ nextToken = 1
  /\ authResult = NoResult
  /\ accessTokens = {}
  /\ gate = NoGate
  /\ passwordCall = NoCall
  /\ passwordHash \in {NoPassword} \cup {StoredRecord(text) : text \in LoadedRecords}

NextPassword ==
  \/ HashPassword
  \/ VerifyPassword

SpecPassword == InitPassword /\ [][NextPassword]_vars

\* Reads during mutations: the process is listening with empty lists, up to
\* MaxRead mutating requests arrive, and GET /api/settings is answered at
\* any moment.
NextRead ==
  \/ Submit(MaxRead)
  \/ \E id \in 1..MaxRead : Step(id)
  \/ GetSettings

SpecRead == InitQueue /\ [][NextRead]_vars

\* ------------------------------------------------------------- claims
RunningTasks == {id \in DOMAIN tasks : tasks[id].status = "running"}
AtAwait(id) == tasks[id].status = "running" /\ tasks[id].pc \in {"close", "open", "write"}
ServerRoutes == {PostServersRoute, PatchServersRoute, DeleteServersRoute}
ClientRoutes == {PostClientsRoute, PatchClientsRoute, DeleteClientsRoute}

\* C1: at every instant at most one mutating task, of a server or of a
\* client, is executing its body, the awaits on close, ready and writeFile
\* included.
C1_OneMutationAtATime ==
  /\ Cardinality(RunningTasks) <= 1
  /\ activeCount = Cardinality(RunningTasks)

\* a task is suspended at an await while another request waits in the queue
C1_Witness ==
  \E id \in DOMAIN tasks : AtAwait(id) /\ queue # <<>>

\* C2: tasks start in arrival order: when a task has begun, every task
\* submitted before it has completed.
C2_ArrivalOrder ==
  \A a, b \in DOMAIN tasks :
    (a < b /\ tasks[b].status # "queued") => tasks[a].status = "done"

\* two tasks are queued while a third one is suspended at an await
C2_Witness ==
  \E id \in DOMAIN tasks : AtAwait(id) /\ Len(queue) >= 2

\* C3: a task that fails releases the serializer: every queued task
\* eventually runs, provided the external calls of the tasks ahead return.
C3_QueuedEventuallyRuns ==
  \A id \in 1..MaxFair :
    (id \in DOMAIN tasks /\ tasks[id].status = "queued")
      ~> (id \in DOMAIN tasks /\ tasks[id].status = "done")

\* a task has replied with an error and the one queued behind it is running
C3_Witness ==
  /\ reply.code \in {400, 404, 500}
  /\ reply.id + 1 \in DOMAIN tasks
  /\ tasks[reply.id + 1].status = "running"

ListOf(route) == IF route \in ServerRoutes THEN holesailServers ELSE holesailClients
\* the list of the route's kind after the step
NextListOf(route) == IF route \in ServerRoutes THEN holesailServers' ELSE holesailClients'
PreOf(id) == IF tasks[id].route \in ServerRoutes THEN tasks[id].pre.servers
             ELSE tasks[id].pre.clients
LiveIds == {h.id : h \in live}
OpenIds == {h.id : h \in {x \in live : x.st = "open"}}
\* the step on which task id settles
Finishing(id) ==
  id \in DOMAIN tasks /\ tasks[id].status = "running" /\ tasks'[id].status = "done"
\* a step of task id from the start of its body
FirstStep(id) ==
  /\ id \in DOMAIN tasks /\ tasks[id].status = "running" /\ tasks[id].pc = "start"
  /\ tasks'[id] # tasks[id]

\* the handles held for entry index of a kind: the one the entry references
\* and the one whose ready() a startServer/startClient for that index awaits
HandlesFor(routes, phaseName, list, index) ==
  {h \in LiveIds :
     \/ list[index + 1].hs = h
     \/ \E id \in DOMAIN tasks :
          /\ tasks[id].status = "running" /\ tasks[id].pc = "open"
          /\ tasks[id].route \in routes /\ tasks[id].index = index /\ tasks[id].hs = h
     \/ phase = phaseName /\ sweep.i = index /\ sweep.hs = h}

OwnedHandles ==
  UNION ({HandlesFor(ServerRoutes, "servers", holesailServers, i - 1) :
            i \in DOMAIN holesailServers}
         \cup {HandlesFor(ClientRoutes, "clients", holesailClients, i - 1) :
            i \in DOMAIN holesailClients})

\* C4: at every instant each entry holds at most one handle that is opening,
\* open or closing, and the collaborator holds no such handle outside the
\* entries: open is never invoked for an index whose previous handle has not
\* finished closing.
C4_OneHandlePerEntry ==
  /\ \A i \in DOMAIN holesailServers :
       Cardinality(HandlesFor(ServerRoutes, "servers", holesailServers, i - 1)) <= 1
  /\ \A i \in DOMAIN holesailClients :
       Cardinality(HandlesFor(ClientRoutes, "clients", holesailClients, i - 1)) <= 1
  /\ LiveIds \subseteq OwnedHandles
  /\ phase # "exited" => Cardinality(live) = Cardinality(LiveIds)

\* a replace of an entry that held a handle has closed it and awaits the
\* ready() of the new one
C4_Witness ==
  \E id \in DOMAIN tasks :
    /\ tasks[id].status = "running" /\ tasks[id].pc = "open"
    /\ tasks[id].route \in {PatchServersRoute, PatchClientsRoute}
    /\ PreOf(id)[tasks[id].index + 1].hs # 0

\* C5: when the create of a valid enabled entry resolves with success, the
\* returned index is the list length before the call and the entry at that
\* index is Running (handle open) or Failed (no handle), never Initializing.
C5_CreateResolved ==
  [][\A id \in 1..MaxRequests :
       (/\ Finishing(id)
        /\ tasks[id].route \in {PostServersRoute, PostClientsRoute}
        /\ tasks[id].body.enabled = Bool(TRUE)
        /\ reply'.code = 200)
       => /\ reply'.id = id
          /\ reply'.index = Len(PreOf(id))
          /\ Len(NextListOf(tasks[id].route)) = Len(PreOf(id)) + 1
          /\ LET e == NextListOf(tasks[id].route)[reply'.index + 1]
             IN  \/ e.state = "running" /\ e.hs \in OpenIds'
                 \/ e.state = "failed" /\ e.hs = 0]_vars

\* a create has resolved with success and its entry is Failed
C5_Witness ==
  /\ reply.code = 200 /\ reply.index >= 0
  /\ \/ /\ InRange(holesailServers, reply.index)
        /\ holesailServers[reply.index + 1].state = "failed"
     \/ /\ InRange(holesailClients, reply.index)
        /\ holesailClients[reply.index + 1].state = "failed"

\* C6: for an entry whose config has enabled = false, create, replace and the
\* start-up sweep never call the collaborator's open, and the entry is
\* Disabled once the operation has finished.
C6_NoOpenForDisabled ==
  /\ \A id \in DOMAIN tasks :
       (tasks[id].status = "running" /\ tasks[id].pc = "open")
         => Truthy(ListOf(tasks[id].route)[tasks[id].index + 1].cfg.enabled)
  /\ (phase = "servers" /\ sweep.hs # 0)
       => Truthy(holesailServers[sweep.i + 1].cfg.enabled)
  /\ (phase = "clients" /\ sweep.hs # 0)
       => Truthy(holesailClients[sweep.i + 1].cfg.enabled)

C6_DisabledWhenFinished ==
  /\ \A id \in 1..MaxRequests :
       (/\ Finishing(id)
        /\ tasks[id].route \in {PostServersRoute, PostClientsRoute,
                                PatchServersRoute, PatchClientsRoute}
        /\ tasks[id].pc # "start"
        /\ tasks[id].body.enabled = Bool(FALSE))
       => NextListOf(tasks[id].route)[tasks[id].index + 1].state = "disabled"
  /\ (phase = "servers" /\ sweep'.i = sweep.i + 1
        /\ ~Truthy(holesailServers[sweep.i + 1].cfg.enabled))
       => holesailServers'[sweep.i + 1].state = "disabled"
  /\ (phase = "clients" /\ sweep'.i = sweep.i + 1
        /\ ~Truthy(holesailClients[sweep.i + 1].cfg.enabled))
       => holesailClients'[sweep.i + 1].state = "disabled"

C6_DisabledEntry == []C6_NoOpenForDisabled /\ [][C6_DisabledWhenFinished]_vars

\* C7: a delete of index i from a list of length n leaves n - 1 entries;
\* the entries before i keep their index, those after i move down by one
\* with config, state and handle unchanged; the handle of the deleted entry
\* is no longer held by the collaborator.
C7_DeleteShifts ==
  [][\A id \in 1..MaxRequests :
       (/\ Finishing(id)
        /\ tasks[id].route \in {DeleteServersRoute, DeleteClientsRoute}
        /\ tasks[id].pc = "write")
       => LET pre == PreOf(id)
              post == NextListOf(tasks[id].route)
              i == tasks[id].index + 1
          IN  /\ i \in DOMAIN pre
              /\ Len(post) = Len(pre) - 1
              /\ \A j \in DOMAIN pre :
                   /\ j < i => post[j] = pre[j]
                   /\ j > i => post[j - 1] = pre[j]
              /\ pre[i].hs \notin LiveIds']_vars

\* a delete of the first of two entries, which held a handle, has spliced
C7_Witness ==
  \E id \in DOMAIN tasks :
    /\ tasks[id].status = "running" /\ tasks[id].pc = "write"
    /\ tasks[id].route \in {DeleteServersRoute, DeleteClientsRoute}
    /\ tasks[id].index = 0
    /\ Len(PreOf(id)) = 2
    /\ PreOf(id)[1].hs # 0
    /\ PreOf(id)[2].hs # 0

\* C8: a replace or delete whose index is not in 0 .. length - 1 of the list
\* as it is when the task runs replies 404 and changes nothing: no entry, no
\* handle, no close or open, nothing persisted.
C8_NotFoundChangesNothing ==
  [][\A id \in 1..MaxRequests :
       (/\ FirstStep(id)
        /\ tasks[id].route \in {PatchServersRoute, PatchClientsRoute,
                                DeleteServersRoute, DeleteClientsRoute}
        /\ LET pi == parseInt(tasks[id].param)
           IN  pi.nan \/ pi.n < 0 \/ pi.n >= Len(ListOf(tasks[id].route)))
       => /\ reply' = [id |-> id, code |-> 404, index |-> -1]
          /\ tasks'[id].status = "done"
          /\ UNCHANGED <<holesailServers, holesailClients, live, nextHs, disk>>]_vars

\* a replace or delete has replied 404
C8_Witness == reply.code = 404

\* the validation rules of the entry configs, stated on the request body
RuleKeyServer(k) ==
  k.t = "string" /\ (Len(k.s) = 0 \/ (Len(k.s) \in 64..1000 /\ k.s[6] # "s"))
RuleKeyClient(k) ==
  k.t = "string"
    /\ (Len(k.s) = 0
        \/ (Len(k.s) >= 5 /\ k.s[1] = "h" /\ k.s[2] = "s" /\ k.s[3] = ":"
              /\ k.s[4] = "/" /\ k.s[5] = "/"))
RulePort(v) == v.t = "number" /\ v.whole /\ v.n \in 0..65535
RuleServerBody(b) ==
  /\ b.present
  /\ b.host.t = "string" /\ Len(b.host.s) <= 255
  /\ RulePort(b.port)
  /\ RuleKeyServer(b.key)
  /\ b.secure.t = "boolean" /\ b.enabled.t = "boolean"
  /\ b.enabled.b => (Len(b.key.s) > 0 /\ Len(b.host.s) > 0 /\ b.port.n # 0)
RuleClientBody(b) ==
  /\ b.present
  /\ RulePort(b.port)
  /\ RuleKeyClient(b.key)
  /\ b.enabled.t = "boolean"
  /\ b.enabled.b => (Len(b.key.s) > 0 /\ b.port.n # 0)
RuleBody(route, b) ==
  IF route \in ServerRoutes THEN RuleServerBody(b) ELSE RuleClientBody(b)

\* C9: a create or replace whose body fails validation is rejected before
\* any state change: lists, handles and the persisted document are unchanged
\* and neither close nor open is invoked.
C9_InvalidChangesNothing ==
  [][\A id \in 1..MaxRequests :
       (/\ FirstStep(id)
        /\ tasks[id].route \in {PostServersRoute, PostClientsRoute,
                                PatchServersRoute, PatchClientsRoute}
        /\ ~RuleBody(tasks[id].route, tasks[id].body))
       => /\ reply'.id = id /\ reply'.code \in {400, 404, 500}
          /\ tasks'[id].status = "done"
          /\ UNCHANGED <<holesailServers, holesailClients, live, nextHs, disk>>]_vars

\* a create or replace has been rejected as invalid
C9_Witness == reply.code = 400

\* C10: when open fails during a create or a replace, the operation still
\* replies success (a create with its index) and the entry stays in the list
\* as Failed.
C10_OpenFailureIsSuccess ==
  [][\A id \in 1..MaxRequests :
       (/\ Finishing(id)
        /\ tasks[id].route \in {PostServersRoute, PostClientsRoute,
                                PatchServersRoute, PatchClientsRoute}
        /\ tasks[id].pc \in {"open", "write"}
        /\ InRange(NextListOf(tasks[id].route), tasks[id].index)
        /\ NextListOf(tasks[id].route)[tasks[id].index + 1].state = "failed")
       => /\ reply'.code = 200
          /\ reply'.index = IF tasks[id].route \in {PostServersRoute, PostClientsRoute}
                            THEN tasks[id].index ELSE -1]_vars

\* C11: when the write of the document fails during a create, a replace or a
\* delete, of a server or of a client, the operation settles on that step
\* with a failure reply (500), never with a success.
C11_WriteFailureReported ==
  [][\A id \in 1..MaxRequests :
       (/\ id \in DOMAIN tasks
        /\ tasks[id].status = "running"
        /\ tasks[id].pc = "write"
        /\ tasks'[id] # tasks[id]
        /\ disk' # tasks[id].doc)
       => /\ tasks'[id].status = "done"
          /\ reply'.id = id
          /\ reply'.code = 500]_vars

\* a mutation has been answered 500 and the lists in memory hold a change the
\* file does not
C11_Witness ==
  /\ reply.code = 500
  /\ disk.ok
  /\ disk # Document(holesailServers, holesailClients)

\* the sweep has finished with an entry: a non-enabled one is Disabled, an
\* enabled one is Running on an open handle or Failed
Processed(e) ==
  /\ e.state \in {"disabled", "running", "failed"}
  /\ (e.state = "disabled") <=> ~Truthy(e.cfg.enabled)
  /\ (e.state = "running") => e.hs \in OpenIds
\* the sweep has not come to an entry yet
Pending(e) == e.state = "undefined" /\ e.hs = 0
\* the loop stands at index i of a list, awaiting ready() of handle h when
\* h is not 0
SweptUpTo(list, i, h) ==
  \A j \in 1..Len(list) :
    /\ j <= i => Processed(list[j])
    /\ j = i + 1 => IF h = 0 THEN Pending(list[j])
                    ELSE list[j].state = "initializing" /\ h \in LiveIds
    /\ j > i + 1 => Pending(list[j])

C12_SweepOrder ==
  /\ phase = "servers" =>
       /\ SweptUpTo(holesailServers, sweep.i, sweep.hs)
       /\ \A j \in 1..Len(holesailClients) : Pending(holesailClients[j])
  /\ phase = "clients" =>
       /\ \A j \in 1..Len(holesailServers) : Processed(holesailServers[j])
       /\ SweptUpTo(holesailClients, sweep.i, sweep.hs)
  /\ phase = "listening" =>
       /\ \A j \in 1..Len(holesailServers) : Processed(holesailServers[j])
       /\ \A j \in 1..Len(holesailClients) : Processed(holesailClients[j])
  /\ phase \in {"servers", "clients", "listening"} =>
       Document(holesailServers, holesailClients) = disk

\* a step of the sweep touches the entry the loop stands at and no other
C12_SweepStep ==
  phase \in {"servers", "clients"} =>
    /\ Len(holesailServers') = Len(holesailServers)
    /\ Len(holesailClients') = Len(holesailClients)
    /\ \A j \in 1..Len(holesailServers) :
         holesailServers'[j] # holesailServers[j] =>
           phase = "servers" /\ j = sweep.i + 1
    /\ \A j \in 1..Len(holesailClients) :
         holesailClients'[j] # holesailClients[j] =>
           phase = "clients" /\ j = sweep.i + 1

\* C12: the start-up sweep goes through the servers in list order and then
\* the clients in list order; it opens each enabled entry and marks each
\* non-enabled entry Disabled; a failed open marks that entry alone Failed,
\* the entries after it are still processed, and the order of the lists stays
\* that of the document.
C12_StartupSweep == []C12_SweepOrder /\ [][C12_SweepStep]_vars

\* the sweep is over, the open of the first of two clients failed and the
\* second one runs
C12_Witness ==
  /\ phase = "listening"
  /\ Len(holesailClients) >= 2
  /\ holesailClients[1].state = "failed"
  /\ holesailClients[2].state = "running"

\* ---- the session registry
\* a step is a call of the function op: every call records itself in
\* authResult and only the clock changes `now`
Call(op) == authResult'.op = op /\ now' = now
Stored(id) == id \in DOMAIN sessionsById
Lookupable(h) == h \in DOMAIN sessionIdByRefreshTokenHash
SessionCount == Cardinality(DOMAIN sessionsById)
RegistryUnchanged ==
  /\ sessionsById' = sessionsById
  /\ sessionIdByRefreshTokenHash' = sessionIdByRefreshTokenHash
\* a map without some of its keys
Omit(m, keys) == [x \in DOMAIN m \ keys |-> m[x]]

\* C14: whatever calls of createSession, refreshSession, invalidateSession,
\* invalidateSessionByRefreshToken, invalidateAllSessions, isSessionActive
\* and sweeps have been made, the registry stores at most maxSessions (100)
\* sessions.
C14_AtMostCap == SessionCount <= maxSessions

\* the registry is full
C14_Witness == SessionCount = maxSessions /\ authResult.op = "createSession"

\* C15: createSession called while the registry holds maxSessions sessions,
\* none of them expired, returns null and leaves the session table and the
\* hash index as they were.
C15_CapacityRefusal ==
  [][(/\ Call("createSession")
      /\ SessionCount = maxSessions
      /\ \A id \in DOMAIN sessionsById : sessionsById[id].refreshExpiresAt >= now)
     => /\ authResult'.value = Null
        /\ RegistryUnchanged]_vars

\* createSession has returned null to a caller and the registry is full
C15_Witness ==
  /\ authResult.op = "createSession"
  /\ ~authResult.value.ok
  /\ SessionCount = maxSessions

\* C16: a refresh token is single-use. A successful refreshSession(t) takes
\* the hash of t out of the index and puts the hash of the token it returns
\* in; no hash enters the index but that of a token drawn in that step, so
\* the hash of a token that has left the index never comes back; and
\* refreshSession of a token whose hash is not in the index returns null.
C16_SingleUse ==
  [][/\ (Call("refreshSession") /\ authResult'.value.ok) =>
          /\ hashRefreshToken(authResult'.refreshToken)
               \notin DOMAIN sessionIdByRefreshTokenHash'
          /\ hashRefreshToken(authResult'.value.refreshToken)
               \in DOMAIN sessionIdByRefreshTokenHash'
          /\ sessionIdByRefreshTokenHash'[hashRefreshToken(authResult'.value.refreshToken)]
               = authResult'.value.sessionId
          /\ authResult'.value.sessionId \in DOMAIN sessionsById'
     /\ \A h \in DOMAIN sessionIdByRefreshTokenHash' \ DOMAIN sessionIdByRefreshTokenHash :
          h = hashRefreshToken(RefreshToken(nextToken))
     /\ (Call("refreshSession")
         /\ ~Lookupable(hashRefreshToken(authResult'.refreshToken))) =>
          ~authResult'.value.ok]_vars

\* a token that has been rotated was presented again and refused, while its
\* session is still stored and not expired
C16_Witness ==
  \E n \in 1..Preloaded :
    /\ authResult.op = "refreshSession"
    /\ authResult.refreshToken = RefreshToken(n)
    /\ ~authResult.value.ok
    /\ Stored(n)
    /\ sessionsById[n].refreshTokenHash # hashRefreshToken(RefreshToken(n))
    /\ now <= sessionsById[n].refreshExpiresAt

\* a step that may take a hash out of the index: an invalidation, or the
\* rotation of the token the hash belongs to
Releases(h) ==
  \/ Call("invalidateSession")
  \/ Call("invalidateSessionByRefreshToken")
  \/ Call("invalidateAllSessions")
  \/ Call("refreshSession") /\ hashRefreshToken(authResult'.refreshToken) = h

\* C17: every session expires refreshTokenExpirySeconds after it was issued;
\* refreshSession with the token a session holds succeeds when now is at most
\* refreshExpiresAt and returns null when now is past it; and up to
\* refreshExpiresAt the token stays the session's unless the session is
\* invalidated or the token rotated.
C17_Lifetime ==
  \A id \in DOMAIN sessionsById :
    sessionsById[id].refreshExpiresAt = sessionsById[id].issuedAt + refreshTokenExpirySeconds

C17_RefreshStep ==
  /\ (/\ Call("refreshSession")
      /\ Lookupable(hashRefreshToken(authResult'.refreshToken))
      /\ Stored(sessionIdByRefreshTokenHash[hashRefreshToken(authResult'.refreshToken)]))
     => (authResult'.value.ok <=>
           now <= sessionsById[sessionIdByRefreshTokenHash[
                    hashRefreshToken(authResult'.refreshToken)]].refreshExpiresAt)
  /\ \A h \in DOMAIN sessionIdByRefreshTokenHash \ DOMAIN sessionIdByRefreshTokenHash' :
       \/ Releases(h)
       \/ ~Stored(sessionIdByRefreshTokenHash[h])
       \/ now' > sessionsById[sessionIdByRefreshTokenHash[h]].refreshExpiresAt

C17_ValidUntilExpiry == []C17_Lifetime /\ [][C17_RefreshStep]_vars

\* a refresh has succeeded in the very second the session expires
C17_Witness ==
  /\ authResult.op = "refreshSession"
  /\ authResult.value.ok
  /\ authResult.value.refreshExpiresAt = now

\* the session a call of one of the two invalidations is about: the id
\* passed, or the one the index gives for the token passed (an id that is not
\* stored when there is none)
Target ==
  IF authResult'.op = "invalidateSession" THEN authResult'.sessionId
  ELSE IF Lookupable(hashRefreshToken(authResult'.refreshToken))
       THEN sessionIdByRefreshTokenHash[hashRefreshToken(authResult'.refreshToken)]
       ELSE UnknownId

\* C18: invalidateSession(id) and invalidateSessionByRefreshToken(token) take
\* the session out of the session table and its hash out of the index and
\* touch no other session; for an id or a token that is not stored (as on a
\* second application) they leave the registry as it was.
C18_Invalidate ==
  [][(Call("invalidateSession") \/ Call("invalidateSessionByRefreshToken")) =>
       IF Stored(Target)
       THEN /\ sessionsById' = Omit(sessionsById, {Target})
            /\ sessionIdByRefreshTokenHash' =
                 Omit(sessionIdByRefreshTokenHash, {sessionsById[Target].refreshTokenHash})
            /\ \A h \in DOMAIN sessionIdByRefreshTokenHash' :
                 sessionIdByRefreshTokenHash'[h] # Target
       ELSE RegistryUnchanged]_vars

\* a session that was issued has been invalidated by its refresh token
C18_Witness ==
  /\ authResult.op = "invalidateSessionByRefreshToken"
  /\ authResult.refreshToken >= RefreshToken(1)
  /\ ~Lookupable(hashRefreshToken(authResult.refreshToken))
  /\ SessionCount = Preloaded - 1

\* C19: after invalidateAllSessions(id) no session other than id is in the
\* session table or the index; session id, when it was stored, is still
\* stored with the same hash, issuedAt and refreshExpiresAt, and the index
\* still gives id for its hash.
C19_InvalidateAll ==
  [][Call("invalidateAllSessions") =>
       /\ DOMAIN sessionsById' \subseteq {authResult'.sessionId}
       /\ \A h \in DOMAIN sessionIdByRefreshTokenHash' :
            sessionIdByRefreshTokenHash'[h] = authResult'.sessionId
       /\ Stored(authResult'.sessionId) =>
            /\ authResult'.sessionId \in DOMAIN sessionsById'
            /\ sessionsById'[authResult'.sessionId] = sessionsById[authResult'.sessionId]
            /\ sessionsById[authResult'.sessionId].refreshTokenHash
                 \in DOMAIN sessionIdByRefreshTokenHash'
       /\ ~Stored(authResult'.sessionId) =>
            sessionIdByRefreshTokenHash' = EmptyMap]_vars

\* all sessions but the caller's have been invalidated
C19_Witness ==
  /\ authResult.op = "invalidateAllSessions"
  /\ DOMAIN sessionsById = {authResult.sessionId}

\* C20: isSessionActive(id) returns true exactly when session id is stored
\* and now is at most its refreshExpiresAt; for a stored session past its
\* refreshExpiresAt it returns false and takes the session out of the session
\* table and its hash out of the index; in every other case the registry
\* stays as it was.
C20_IsActive ==
  [][Call("isSessionActive") =>
       /\ authResult'.value.ok <=>
            /\ Stored(authResult'.sessionId)
            /\ now <= sessionsById[authResult'.sessionId].refreshExpiresAt
       /\ IF Stored(authResult'.sessionId)
             /\ now > sessionsById[authResult'.sessionId].refreshExpiresAt
          THEN /\ sessionsById' = Omit(sessionsById, {authResult'.sessionId})
               /\ sessionIdByRefreshTokenHash' =
                    Omit(sessionIdByRefreshTokenHash,
                         {sessionsById[authResult'.sessionId].refreshTokenHash})
          ELSE RegistryUnchanged]_vars

\* isSessionActive has returned false for an expired session and removed
\* it, while other expired sessions are still stored
C20_Witness ==
  /\ authResult.op = "isSessionActive"
  /\ ~authResult.value.ok
  /\ authResult.sessionId # UnknownId
  /\ ~Stored(authResult.sessionId)
  /\ \E id \in DOMAIN sessionsById : sessionsById[id].refreshExpiresAt < now

\* ---- the gate
\* the request carries an access token the server signed, not past its exp,
\* of a session that is stored and not past its refreshExpiresAt
Authorized(header) ==
  /\ header.bearer
  /\ header.token.signed
  /\ now <= header.token.exp
  /\ Stored(header.token.sid)
  /\ now <= sessionsById[header.token.sid].refreshExpiresAt
\* a request of a gated route arrives on this step
Arrival == gate' # gate \/ Len(tasks') > Len(tasks)
\* the sessions that have not expired
Unexpired(sessions, t) ==
  [id \in {x \in DOMAIN sessions : t <= sessions[x].refreshExpiresAt} |-> sessions[id]]

\* C13: while a credential record exists, a request of a mutating route or
\* of the settings read that does not carry a valid, unexpired access token
\* of an active session is answered 401 by requireAuth: no task enters the
\* serializer, the lists, the handles and the document stay as they are, no
\* settings are returned, and the credential record and the sessions that
\* have not expired are untouched.
C13_GatedRoutes ==
  [][(/\ passwordHash # NoPassword
      /\ Arrival
      /\ ~Authorized(gate'.header))
     => /\ gate'.code = 401
        /\ UNCHANGED serverVars
        /\ passwordHash' = passwordHash
        /\ Unexpired(sessionsById', now) = Unexpired(sessionsById, now)]_vars

\* a request with an access token the server signed and that has not
\* expired was refused, because its session is not stored any more
C13_Witness ==
  /\ passwordHash # NoPassword
  /\ gate.code = 401
  /\ gate.header.bearer
  /\ gate.header.token.signed
  /\ now < gate.header.token.exp
  /\ ~Stored(gate.header.token.sid)

\* a session id that was issued and whose session has ended: it is no longer
\* stored (invalidated by id, by refresh token, by invalidate-all, or removed
\* once expired), or it is stored past its refreshExpiresAt
Terminated(id) ==
  /\ id \in 1..(nextUuid - 1)
  /\ ~Stored(id) \/ sessionsById[id].refreshExpiresAt < now

\* C21: session termination is permanent: a terminated session id stays
\* terminated whatever is called next (the only id that enters the registry
\* is the one just drawn, no stored session's refreshExpiresAt grows and the
\* clock does not go back), isSessionActive of it returns false, and
\* refreshSession never succeeds for it: a refresh token is only ever
\* accepted for the session it was issued for, while that session is alive.
C21_TerminationIsPermanent ==
  [][/\ now' >= now
     /\ \/ sessionsById' = sessionsById
        \/ /\ DOMAIN sessionsById' \subseteq DOMAIN sessionsById \cup {nextUuid}
           /\ \A id \in DOMAIN sessionsById' \ {nextUuid} :
                sessionsById'[id].refreshExpiresAt <= sessionsById[id].refreshExpiresAt
     /\ \/ sessionIdByRefreshTokenHash' = sessionIdByRefreshTokenHash
        \/ \A h \in DOMAIN sessionIdByRefreshTokenHash' :
             IF Lookupable(h)
             THEN sessionIdByRefreshTokenHash'[h] = sessionIdByRefreshTokenHash[h]
             ELSE /\ h = hashRefreshToken(RefreshToken(nextToken))
                  /\ ~Terminated(sessionIdByRefreshTokenHash'[h])
     /\ (Call("isSessionActive") /\ Terminated(authResult'.sessionId))
          => ~authResult'.value.ok
     /\ (Call("refreshSession") /\ authResult'.value.ok)
          => /\ Lookupable(hashRefreshToken(authResult'.refreshToken))
             /\ authResult'.value.sessionId =
                  sessionIdByRefreshTokenHash[hashRefreshToken(authResult'.refreshToken)]
             /\ ~Terminated(authResult'.value.sessionId)]_vars

\* the token of a session that has been invalidated is presented and refused
C21_Witness ==
  /\ authResult.op = "refreshSession"
  /\ authResult.refreshToken \in 1..(nextToken - 1)
  /\ ~authResult.value.ok
  /\ ~Lookupable(hashRefreshToken(authResult.refreshToken))
  /\ now <= refreshTokenExpirySeconds

\* a call of verifyPassword has returned, against a record hashPassword made
VerifiedAgainstHashed ==
  /\ passwordCall.op = "verifyPassword"
  /\ passwordHash.set
  /\ passwordCall.known

\* C22 as stated: verifyPassword(p, hashPassword(p)) is true, and
\* verifyPassword(q, hashPassword(p)) is false for every q different from p.
C22_RoundTrip ==
  VerifiedAgainstHashed =>
    passwordCall.outcome =
      (IF passwordCall.password = passwordCall.hashed THEN "true" ELSE "false")

\* C22: verifyPassword(p, hashPassword(p)) is true, and
\* verifyPassword(q, hashPassword(p)) is false for every q whose UTF-8
\* encoding differs from that of p (two strings that differ only in
\* surrogates standing alone have one encoding, and verify alike).
C22_RoundTripOfEncoding ==
  VerifiedAgainstHashed =>
    passwordCall.outcome =
      (IF utf8(passwordCall.password) = utf8(passwordCall.hashed) THEN "true" ELSE "false")

\* another password than the one hashed has been verified and refused
C22_Witness ==
  /\ VerifiedAgainstHashed
  /\ passwordCall.password # passwordCall.hashed
  /\ passwordCall.hashed # <<>>
  /\ passwordCall.outcome = "false"

\* C23: verifyPassword returns false and its promise never rejects for every
\* stored record that is malformed (not one hashPassword can have written).
C23_MalformedIsFalse ==
  (/\ passwordCall.op = "verifyPassword"
   /\ passwordHash.set
   /\ ~WellFormed(passwordHash.text))
    => passwordCall.outcome = "false"

\* a step in which GET /api/settings is answered
ReadAnswered == settings' # settings \/ gate' # gate

Transitional == {"stopping", "initializing"}

\* C24: a settings read is never blocked by the serializer: whenever the
\* server listens the read can be answered, also while a mutation is running
\* or waits on a pending open or close; it returns the lists as they are at
\* that moment, transitional states included, and takes no slot and changes
\* nothing; while the running task waits, the queued mutations do not start.
C24_ReadNotBlocked ==
  /\ phase = "listening" => ENABLED GetSettings
  /\ (RunningTasks # {} /\ queue # <<>>) => ~ENABLED LimitRun(Head(queue))

C24_ReadStep ==
  ReadAnswered =>
    /\ settings' = Settings(holesailServers, holesailClients)
    /\ UNCHANGED <<phase, sweep, disk, holesailServers, holesailClients, live, nextHs,
                   queue, activeCount, tasks, reply>>

C24_ReadsBypassSerializer == []C24_ReadNotBlocked /\ [][C24_ReadStep]_vars

\* a read has returned an entry in a transitional state, the mutation is
\* still waiting on its pending call and another mutation is queued behind it
C24_Witness ==
  /\ settings.sent
  /\ \E id \in DOMAIN tasks : AtAwait(id) /\ tasks[id].pc \in {"close", "open"}
  /\ queue # <<>>
  /\ settings = Settings(holesailServers, holesailClients)
  /\ \E i \in DOMAIN settings.servers : settings.servers[i].state \in Transitional

\* task id begins the body of a create, or of a replace whose index names an
\* entry, of the given routes
Validating(id, post, patch) ==
  /\ FirstStep(id)
  /\ \/ tasks[id].route = post
     \/ /\ tasks[id].route = patch
        /\ ~BadIndex(ListOf(patch), parseInt(tasks[id].param))

\* task id is turned away as invalid: 400, and nothing else
ValidationError(id) ==
  /\ reply' = [id |-> id, code |-> 400, index |-> -1]
  /\ tasks'[id].status = "done"

\* C25: a server create or replace is accepted (goes on to install the
\* config) exactly when its body satisfies the server rules; every other
\* request is rejected as a validation error.
C25_ServerAcceptance ==
  [][\A id \in 1..MaxRequests :
       Validating(id, PostServersRoute, PatchServersRoute) =>
         IF RuleServerBody(tasks[id].body)
         THEN tasks'[id].status = "running"
         ELSE ValidationError(id)]_vars

\* C26: a client create or replace is accepted exactly when its body
\* satisfies the client rules; every other request is rejected as a
\* validation error.
C26_ClientAcceptance ==
  [][\A id \in 1..MaxRequests :
       Validating(id, PostClientsRoute, PatchClientsRoute) =>
         IF RuleClientBody(tasks[id].body)
         THEN tasks'[id].status = "running"
         ELSE ValidationError(id)]_vars

\* ---------------------------------------------------------------- C27
ServerFields == {"host", "port", "key", "secure", "enabled"}
ClientFields == {"key", "port", "enabled"}
\* a document holds configuration fields only
ConfigOnly(doc) ==
  doc.ok =>
    /\ \A i \in DOMAIN doc.servers : DOMAIN doc.servers[i] = ServerFields
    /\ \A i \in DOMAIN doc.clients : DOMAIN doc.clients[i] = ClientFields
\* task id has called saveData and its writeFile has not settled
Saving(id) == tasks[id].status = "running" /\ tasks[id].pc = "write"

\* C27: every document handed to writeFile, and so the document on disk,
\* holds for each entry only its configuration fields: neither `state` nor
\* `hs` is in it, whatever the entries' states when saveData was called.
C27_ConfigOnlyPersisted ==
  /\ ConfigOnly(disk)
  /\ \A id \in DOMAIN tasks : Saving(id) => ConfigOnly(tasks[id].doc)

\* a save is pending whose document covers an entry that is running with a
\* live handle, while the file holds the document of an earlier save
C27_Witness ==
  /\ \E id \in DOMAIN tasks :
       /\ Saving(id)
       /\ tasks[id].doc = Document(holesailServers, holesailClients)
       /\ \E i \in DOMAIN ListOf(tasks[id].route) :
            /\ ListOf(tasks[id].route)[i].state = "running"
            /\ ListOf(tasks[id].route)[i].hs # 0
  /\ disk.ok
  /\ reply.code = 200
  /\ Len(disk.servers) + Len(disk.clients) > MaxPersisted

\* ---------------------------------------------------------------- C28
\* C28: once every mutating operation has returned, with success or with a
\* persistence failure, the lists in memory (membership, order and config)
\* equal the last document written: a create, replace or delete whose write
\* failed has left nothing added, replaced or removed in memory.
C28_MemoryEqualsLastWritten ==
  (phase = "listening" /\ RunningTasks = {}) =>
    /\ disk.ok
    /\ Document(holesailServers, holesailClients) = disk

\* ---------------------------------------------------------------- C29
CreateOrReplace == {PostServersRoute, PostClientsRoute,
                    PatchServersRoute, PatchClientsRoute}
\* task id takes a step on which a new handle is constructed for its config
OpensHandle(id) ==
  /\ id \in DOMAIN tasks /\ tasks[id].status = "running"
  /\ tasks'[id] # tasks[id]
  /\ nextHs' # nextHs

\* C29: in create and in replace, of a server or of a client, the handle for
\* the new config is constructed only once the write of the document holding
\* that config has succeeded.
C29_PersistBeforeOpen ==
  [][\A id \in 1..MaxRequests :
       (OpensHandle(id) /\ tasks[id].route \in CreateOrReplace) =>
          /\ tasks[id].pc = "write"
          /\ disk' = tasks[id].doc
          /\ disk' = Document(holesailServers', holesailClients')]_vars

\* ---------------------------------------------------------------- C30
RuntimeStates == {"disabled", "initializing", "running", "failed",
                  "stopping", "stopped"}
HasState(list) == \A i \in DOMAIN list : list[i].state \in RuntimeStates

\* C30: once the start-up sweep is over every entry of either list has a
\* runtime state, and a settings read returns no entry without one, an entry
\* just appended or installed whose write is pending or has failed included.
C30_EveryEntryHasState ==
  /\ phase = "listening" => HasState(holesailServers) /\ HasState(holesailClients)
  /\ settings.sent => HasState(settings.servers) /\ HasState(settings.clients)

\* ---------------------------------------------------------------- C31
StopRoutes == {PatchServersRoute, PatchClientsRoute,
               DeleteServersRoute, DeleteClientsRoute}
\* the handle whose close() task id awaits
ClosingHandle(id) == ListOf(tasks[id].route)[tasks[id].index + 1].hs
\* the close() that task id awaited settles, by returning or by rejecting
CloseSettles(id) ==
  /\ id \in DOMAIN tasks /\ tasks[id].status = "running" /\ tasks[id].pc = "close"
  /\ tasks'[id] # tasks[id]
\* the step on which the close settles, a failed close included: the handle
\* is dropped, no entry references it, and the operation goes on to install
\* or to remove
C31_CloseFailureStep ==
  \A id \in 1..MaxRequests :
    CloseSettles(id) =>
      LET h == ClosingHandle(id)
          l == NextListOf(tasks[id].route)
      IN  /\ h # 0
          /\ h \notin {x.id : x \in live'}
          /\ \A i \in DOMAIN l : l[i].hs # h
          /\ tasks'[id].status = "running"
          /\ reply' = reply
          /\ IF tasks[id].route \in {DeleteServersRoute, DeleteClientsRoute}
             THEN l = Splice(ListOf(tasks[id].route), tasks[id].index)
             ELSE /\ Len(l) = Len(ListOf(tasks[id].route))
                  /\ l[tasks[id].index + 1].cfg =
                       (IF tasks[id].route = PatchServersRoute
                        THEN ServerCfg(tasks[id].body) ELSE ClientCfg(tasks[id].body))
\* the operation whose close failed settles as one whose close succeeded
\* does: with success, unless its write of the document fails
C31_CloseFailureReply ==
  \A id \in 1..MaxRequests :
    (Finishing(id) /\ tasks[id].threw) =>
      /\ tasks[id].route \in StopRoutes
      /\ \/ reply'.code = 200
         \/ reply'.code = 500 /\ tasks[id].pc = "write" /\ disk' = disk

\* C31: when close of an entry's handle fails during a replace or a delete,
\* the operation does not fail: the handle is discarded, no entry references
\* it any more, the operation installs the new config or removes the entry
\* and replies success.
C31_CloseFailureIgnored ==
  [][C31_CloseFailureStep /\ C31_CloseFailureReply]_vars

\* a delete whose close failed has gone on to remove the entry, and a replace
\* whose close failed has gone on to install the new config
C31_Witness ==
  \E id \in DOMAIN tasks :
    /\ tasks[id].status = "running" /\ tasks[id].threw
    /\ tasks[id].pc \in {"open", "write"}
    /\ \A h \in live : h.st # "closing"
    /\ \/ tasks[id].route \in {DeleteServersRoute, DeleteClientsRoute}
       \/ ListOf(tasks[id].route)[tasks[id].index + 1].hs = 0

\* ---------------------------------------------------------------- C32
\* task id, a replace, awaits the close() of its entry's handle
ReplaceClosing(id, route) ==
  tasks[id].status = "running" /\ tasks[id].route = route /\ tasks[id].pc = "close"

\* C32: while the close of a replace is pending, of a server or of a client,
\* the entry that held the open handle is in state Stopping.
C32_StoppingWhileClosing ==
  \A id \in DOMAIN tasks :
    /\ ReplaceClosing(id, PatchServersRoute) =>
         holesailServers[tasks[id].index + 1].state = "stopping"
    /\ ReplaceClosing(id, PatchClientsRoute) =>
         holesailClients[tasks[id].index + 1].state = "stopping"

\* ---------------------------------------------------------------- C33
\* the own properties of an entry object
Properties(e) ==
  DOMAIN e.cfg \cup (IF e.state = "undefined" THEN {} ELSE {"state"})
               \cup (IF e.hs = 0 THEN {} ELSE {"hs"})
\* the entry carries something besides its config, its state and its handle
\* in which the message of a failed open could be kept
KeepsMessage(e, fields) == Properties(e) \ (fields \cup {"state", "hs"}) # {}

\* C33: an entry whose open attempt failed is in state Failed and retains a
\* non-empty error message, for as long as it is neither replaced nor deleted.
C33_FailedKeepsMessage ==
  /\ \A i \in DOMAIN holesailServers :
       holesailServers[i].state = "failed" => KeepsMessage(holesailServers[i], ServerFields)
  /\ \A i \in DOMAIN holesailClients :
       holesailClients[i].state = "failed" => KeepsMessage(holesailClients[i], ClientFields)

\* ---------------------------------------------------------------- C34
\* the pairs (hash, id) the session table gives, and those the index gives
StoredPairs ==
  {<<sessionsById[id].refreshTokenHash, id>> : id \in DOMAIN sessionsById}
IndexedPairs ==
  {<<h, sessionIdByRefreshTokenHash[h]>> : h \in DOMAIN sessionIdByRefreshTokenHash}
\* the last call was a refreshSession that rotated the token
Rotated == authResult.op = "refreshSession" /\ authResult.value.ok

\* C34: the index maps hash h to id exactly when session id is stored with
\* h as its current refreshTokenHash, so no two sessions hold one hash and
\* each session has exactly one lookupable hash; and once a rotation has
\* made the new hash lookupable the old one is not.
C34_IndicesConsistent ==
  /\ IndexedPairs = StoredPairs
  /\ Cardinality(DOMAIN sessionIdByRefreshTokenHash) = Cardinality(DOMAIN sessionsById)
  /\ Rotated =>
       /\ hashRefreshToken(authResult.refreshToken) \notin DOMAIN sessionIdByRefreshTokenHash
       /\ hashRefreshToken(authResult.value.refreshToken) \in DOMAIN sessionIdByRefreshTokenHash
       /\ sessionIdByRefreshTokenHash[hashRefreshToken(authResult.value.refreshToken)]
            = authResult.value.sessionId

\* a token has been rotated while other sessions are stored
C34_Witness ==
  /\ Rotated
  /\ Cardinality(DOMAIN sessionsById) >= 2
  /\ authResult.value.sessionId \in DOMAIN sessionsById

\* ---------------------------------------------------------------- C35
\* the session a presented refresh token belongs to, before the call
Presented == sessionIdByRefreshTokenHash[hashRefreshToken(authResult'.refreshToken)]
\* a successful refreshSession returns the id and the expiry the session had
\* and changes nothing but that session's refreshTokenHash
C35_RefreshStep ==
  (Call("refreshSession") /\ authResult'.value.ok) =>
    /\ Lookupable(hashRefreshToken(authResult'.refreshToken))
    /\ authResult'.value.sessionId = Presented
    /\ authResult'.value.refreshExpiresAt = sessionsById[Presented].refreshExpiresAt
    /\ sessionsById' =
         [sessionsById EXCEPT ![Presented].refreshTokenHash =
                                 hashRefreshToken(authResult'.value.refreshToken)]
\* no stored session lives longer than the life it was created with
C35_NeverExtended ==
  {id \in DOMAIN sessionsById :
     sessionsById[id].refreshExpiresAt
       # sessionsById[id].issuedAt + refreshTokenExpirySeconds} = {}

\* C35: a successful refreshSession changes only the session's refresh token:
\* the sessionId and the refreshExpiresAt it returns are those the session
\* had, the expiry is extended by no number of rotations, the number of
\* sessions is unchanged and no other session is modified.
C35_RefreshFrame == []C35_NeverExtended /\ [][C35_RefreshStep]_vars

\* a rotation has succeeded after the clock has advanced, and the session
\* still expires when it did
C35_Witness ==
  /\ Rotated
  /\ now > 0
  /\ authResult.value.sessionId \in DOMAIN sessionsById
  /\ sessionsById[authResult.value.sessionId].refreshExpiresAt
       = authResult.value.refreshExpiresAt
  /\ authResult.value.refreshExpiresAt < now + refreshTokenExpirySeconds

\* ---------------------------------------------------------------- C36
\* the stored sessions whose refreshExpiresAt has passed
ExpiredStored ==
  {id \in DOMAIN sessionsById : sessionsById[id].refreshExpiresAt < now}
\* no expired session is stored, and the index holds the hashes of the
\* stored sessions only
Swept == ExpiredStored = {} /\ IndexedPairs = StoredPairs
\* a firing of the timer removes the expired sessions with their hashes and
\* nothing else
C36_SweepStep ==
  Call("cleanupExpiredSessions") =>
    /\ sessionsById' = Omit(sessionsById, ExpiredStored)
    /\ sessionIdByRefreshTokenHash' =
         Omit(sessionIdByRefreshTokenHash,
              {sessionsById[id].refreshTokenHash : id \in ExpiredStored})

\* C36: with the interval of initAuth running, every session whose
\* refreshExpiresAt has passed is eventually gone from the session table and
\* from the index, with no call that looks it up, refreshes it or invalidates
\* it (the clock never goes back and no id is issued twice, so a session
\* that has expired is in ExpiredStored for as long as it is stored); and a
\* sweep removes no session that has not expired.
C36_ExpiredEventuallySwept ==
  /\ (ExpiredStored # {}) ~> Swept
  /\ [][C36_SweepStep]_vars

\* the timer has fired after the preloaded sessions expired: they are gone,
\* and the session created a second later is still stored
C36_Witness ==
  /\ authResult.op = "cleanupExpiredSessions"
  /\ now > refreshTokenExpirySeconds
  /\ Swept
  /\ \E id \in DOMAIN sessionsById : id > Preloaded
  /\ \A id \in 1..Preloaded : id \notin DOMAIN sessionsById

\* ---------------------------------------------------------------- C37
\* verifyPassword has been called on the stored record
Verified == passwordCall.op = "verifyPassword" /\ passwordHash.set
RecordSegments == Split(passwordHash.text, Colon)
\* salt and key are present and the third segment does not decode
UnparsableParams ==
  /\ Len(RecordSegments) >= 3
  /\ RecordSegments[1] # <<>> /\ RecordSegments[2] # <<>>
  /\ decodeScryptParams(RecordSegments[3]).null

\* C37: for a stored record whose salt and key are present and whose
\* parameter segment cannot be parsed, verifyPassword returns false for every
\* password: it does not throw and verifies under no other parameters.
C37_UnparsableIsFalse ==
  (Verified /\ UnparsableParams) => passwordCall.outcome = "false"

\* ---------------------------------------------------------------- C38
\* salt and key are present and there is no third segment
TwoSegments ==
  /\ Len(RecordSegments) = 2
  /\ RecordSegments[1] # <<>> /\ RecordSegments[2] # <<>>

\* C38: for a stored record of the form "salt:derivedKey" verifyPassword
\* resolves to a boolean and does not throw: true when the key derived from
\* the password is the stored one, false otherwise.
C38_TwoSegmentsAccepted ==
  (Verified /\ TwoSegments) =>
    passwordCall.outcome =
      (IF scrypt(utf8(passwordCall.password), fromHex(RecordSegments[1]), keyLength,
                 defaultScryptParams) = fromHex(RecordSegments[2])
       THEN "true" ELSE "false")

\* ---------------------------------------------------------------- C39
\* an entry references a handle only when Running or Stopping, and a Running
\* entry references an open handle
HandleMatchesState(e) ==
  /\ e.hs # 0 => e.state \in {"running", "stopping"}
  /\ e.state = "running" => e.hs \in OpenIds

\* C39: in every reachable state an entry references a handle only if its
\* state is Running or Stopping, every Running entry references an open
\* handle, and an entry that is Disabled, Initializing, Failed or Stopped
\* references none.
C39_HandleMatchesState ==
  /\ \A i \in DOMAIN holesailServers : HandleMatchesState(holesailServers[i])
  /\ \A i \in DOMAIN holesailClients : HandleMatchesState(holesailClients[i])

\* ---------------------------------------------------------------- C40
\* task id, a create or a replace, takes a step
Mutates(id) ==
  /\ id \in DOMAIN tasks /\ tasks[id].status = "running"
  /\ tasks[id].route \in CreateOrReplace
  /\ tasks'[id] # tasks[id]
\* the index (from 0) the task is about: the one a create appends at, the
\* one a replace names
TargetIndex(id) ==
  IF tasks[id].pc # "start" THEN tasks[id].index
  ELSE IF tasks[id].route \in {PostServersRoute, PostClientsRoute}
       THEN Len(ListOf(tasks[id].route))
       ELSE parseInt(tasks[id].param).n
\* the list of the other kind
OtherUnchanged(route) ==
  IF route \in ServerRoutes THEN holesailClients' = holesailClients
  ELSE holesailServers' = holesailServers
\* the handles whose state changes on the step
Touched == {h.id : h \in (live \ live') \cup (live' \ live)}

C40_Step(id) ==
  LET l      == ListOf(tasks[id].route)
      n      == NextListOf(tasks[id].route)
      target == TargetIndex(id)
      create == tasks[id].route \in {PostServersRoute, PostClientsRoute}
  IN  /\ OtherUnchanged(tasks[id].route)
      /\ Len(n) = (IF create /\ tasks[id].pc = "start" /\ n # l
                   THEN Len(l) + 1 ELSE Len(l))
      /\ \A j \in DOMAIN l : j # target + 1 => n[j] = l[j]
      /\ (create /\ Len(n) = Len(l) + 1) =>
           /\ target + 1 = Len(n)
           /\ n[Len(n)].cfg = (IF tasks[id].route = PostServersRoute
                               THEN ServerCfg(tasks[id].body) ELSE ClientCfg(tasks[id].body))
      /\ \A h \in Touched :
           \/ h = nextHs
           \/ h = tasks[id].hs
           \/ target + 1 \in DOMAIN l /\ h = l[target + 1].hs

\* C40: a create and a replace leave every other entry as it was (config,
\* state and handle) and close or open no handle but that of their own
\* entry; a replace keeps the length of the list, a create adds one entry, at
\* the last index; a mutation of servers leaves the clients alone, and one
\* of clients the servers.
C40_OthersUntouched ==
  [][\A id \in 1..MaxRequests : Mutates(id) => C40_Step(id)]_vars

\* a replace has installed its config and gone on, next to another entry of
\* its list that is running on its handle
C40_Witness ==
  \E id \in DOMAIN tasks :
    /\ tasks[id].status = "running"
    /\ tasks[id].route \in {PatchServersRoute, PatchClientsRoute}
    /\ tasks[id].pc \in {"open", "write"}
    /\ \E j \in DOMAIN ListOf(tasks[id].route) :
         /\ j # tasks[id].index + 1
         /\ ListOf(tasks[id].route)[j].state = "running"
         /\ ListOf(tasks[id].route)[j].hs \in OpenIds

====
